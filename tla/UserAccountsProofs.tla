-------------------------- MODULE UserAccountsProofs --------------------------
(***************************************************************************)
(* Proofs about UserAccounts, for any finite number of authentication      *)
(* servers, any e-mails, passwords and salts, and however many calls,      *)
(* exceptions and restarts there are.                                      *)
(***************************************************************************)
EXTENDS UserAccounts, FiniteSetTheorems, SequenceTheorems, WellFoundedInduction, TLAPS

-----------------------------------------------------------------------------
\* The row that Found returns.

\* A set of natural numbers has a least element.
LEMMA Smallest ==
  ASSUME NEW T \in SUBSET Nat, T # {}
  PROVE  \E x \in T : \A y \in T : x <= y
<1>1. PICK x \in T : \A y \in T : ~ (<<y, x>> \in OpToRel(<, Nat))
  BY NatLessThanWellFounded, WFMin
<1>2. ASSUME NEW y \in T PROVE x <= y
  <2>1. ~ (y < x) BY <1>1 DEF OpToRel
  <2> QED BY <2>1
<1> QED BY <1>2

\* A set of places in a sequence has a last one.
LEMMA Largest ==
  ASSUME NEW n \in Nat, NEW T \in SUBSET (1..n), T # {}
  PROVE  Max(T) \in T
<1> DEFINE D == {n - i : i \in T}
<1>1. D \in SUBSET Nat /\ D # {}
  <2>1. \A i \in T : n - i \in Nat BY SMT
  <2>2. PICK i \in T : TRUE OBVIOUS
  <2> QED BY <2>1, <2>2
<1>2. PICK d \in D : \A e \in D : d <= e BY <1>1, Smallest
<1>3. PICK x \in T : d = n - x BY <1>2
<1>4. \A y \in T : x >= y
  <2> TAKE y \in T
  <2>1. d <= n - y BY <1>2
  <2> QED BY <1>3, <2>1
<1> QED BY <1>4 DEF Max

\* What a lookup finds, and when it finds nothing.
LEMMA FoundRow ==
  ASSUME TypeOK, NEW email \in Emails \union {NoEmail}
  PROVE  \/ Matching(email) = {} /\ Found(email) = NoUser
         \/ /\ Max(Matching(email)) \in Matching(email)
            /\ Found(email) = web_auth[Max(Matching(email))]
<1>1. Matching(email) \in SUBSET (1..Len(web_auth)) /\ Len(web_auth) \in Nat
  BY DEF Matching, TypeOK
<1>2. CASE Matching(email) = {} BY <1>2 DEF Found
<1>3. CASE Matching(email) # {} BY <1>1, <1>3, Largest DEF Found
<1> QED BY <1>2, <1>3

\* Whatever a query is made of, it finds rows of the table, or none.
LEMMA FindsRow ==
  ASSUME TypeOK, NEW email \in Emails \union {NoEmail}, NEW row \in Finds(email)
  PROVE  row = NoUser \/ \E i \in DOMAIN web_auth : row = web_auth[i]
<1>1. CASE email \in Quoted BY <1>1 DEF Finds
<1>2. CASE email \notin Quoted
  <2>1. row = Found(email) BY <1>2 DEF Finds
  <2> QED BY <2>1, FoundRow DEF Matching
<1> QED BY <1>1, <1>2

LEMMA FindsType ==
  ASSUME TypeOK, NEW email \in Emails \union {NoEmail}, NEW row \in Finds(email)
  PROVE  /\ row.email \in Emails \union {NoEmail}
         /\ row.salt \in Salts \union {""}
         /\ row.hashedPassword \in (Passwords \X Salts) \union {<<>>}
         /\ row.userId \in Int
<1>1. CASE row = NoUser
  <2>1. -1 \in Int BY SMT
  <2>2. /\ NoUser.email = NoEmail /\ NoUser.salt = ""
        /\ NoUser.hashedPassword = <<>> /\ NoUser.userId = -1
    BY DEF NoUser
  <2> QED BY <1>1, <2>1, <2>2
<1>2. CASE \E i \in DOMAIN web_auth : row = web_auth[i]
  <2>1. row \in AuthRows BY <1>2 DEF TypeOK
  <2>2. \A n \in Nat : n \in Int OBVIOUS
  <2> QED BY <2>1, <2>2 DEF AuthRows
<1> QED BY <1>1, <1>2, FindsRow

\* An e-mail that leaves the query as it is gets its own rows.
LEMMA FindsPlain ==
  ASSUME NEW email, email \notin Quoted, NEW row \in Finds(email)
  PROVE  row = Found(email)
BY DEF Finds

-----------------------------------------------------------------------------
\* Types.

\* The type of everything but the tables and the dates read from them.
ServersOK ==
  /\ gUserId \in [Servers -> Nat] /\ pc \in [Servers -> Places]
  /\ call \in [Servers -> {NoCall} \union Requests]
  /\ \A s \in Servers : pc[s] # "idle" => call[s] # NoCall
  /\ thisUser \in [Servers -> UserInfos]
  /\ result \in [Servers -> Int]
  /\ calls \in [Servers -> Nat] /\ failures \in Nat /\ restarts \in Nat
  /\ run \in [Servers -> Nat]
  /\ unanswered \in [Emails \union {NoEmail} -> Nat]

TablesOK == web_auth \in Seq(AuthRows) /\ user \in Seq(UserRows)

DatesOK ==
  /\ creation \in [Servers -> Nat]
  /\ \A s \in Servers :
       creation[s] \in {NoDate} \union (FirstId .. FirstId + Len(user) - 1)

LEMMA TypeParts == TypeOK <=> ServersOK /\ TablesOK /\ DatesOK
  BY DEF TypeOK, ServersOK, TablesOK, DatesOK

LEMMA TypePartsNext == TypeOK' <=> ServersOK' /\ TablesOK' /\ DatesOK'
  BY DEF TypeOK, ServersOK, TablesOK, DatesOK

LEMMA CallType ==
  ASSUME TypeOK, NEW s \in Servers, pc[s] # "idle"
  PROVE  /\ call[s] \in Requests
         /\ call[s].email \in Emails /\ call[s].password \in Passwords
<1>1. call[s] \in Requests BY DEF TypeOK
<1> QED BY <1>1 DEF Requests

LEMMA NewAuthType ==
  ASSUME TypeOK, NEW s \in Servers, pc[s] = "insertAuth", NEW salt \in Salts
  PROVE  NewAuth(s, salt) \in AuthRows
<1>1. gUserId[s] + 1 \in Nat
  <2>1. gUserId[s] \in Nat BY DEF TypeOK
  <2> QED BY <2>1
<1>2. run[s] \in Nat BY DEF TypeOK
<1>3. call[s].email \in Emails /\ call[s].password \in Passwords BY CallType
<1> QED BY <1>1, <1>2, <1>3 DEF NewAuth, AuthRows, Hash

LEMMA NewUserType ==
  ASSUME TypeOK, NEW s \in Servers
  PROVE  NewUser(s) \in UserRows
<1>1. gUserId[s] \in Nat /\ run[s] \in Nat BY DEF TypeOK
<1> QED BY <1>1 DEF NewUser, Account, UserRows

\* A row of `user` stays one when the login is recorded in it.
LEMMA LoggedInType ==
  ASSUME TypeOK, NEW s \in Servers, pc[s] # "idle"
  PROVE  LoggedIn(s) \in Seq(UserRows) /\ Len(LoggedIn(s)) = Len(user)
<1>1. user \in Seq(UserRows) BY DEF TypeOK
<1>2. CASE ~HasRow(thisUser[s].userId) BY <1>1, <1>2 DEF LoggedIn
<1>3. CASE HasRow(thisUser[s].userId)
  <2> DEFINE i == RowOf(thisUser[s].userId)
             row == [user[i] EXCEPT !.lastLogin = call[s].email]
  <2>1. LoggedIn(s) = [user EXCEPT ![i] = row] BY <1>3 DEF LoggedIn
  <2>2. i \in 1..Len(user)
    <3>1. thisUser[s].userId \in Int BY DEF TypeOK, UserInfos
    <3>2. Len(user) \in Nat BY <1>1
    <3> QED BY <1>3, <3>1, <3>2, BoundAssumption, SMT DEF HasRow, RowOf
  <2>3. row \in UserRows
    <3>1. user[i] \in UserRows BY <1>1, <2>2
    <3>2. call[s].email \in Emails BY CallType
    <3> QED BY <3>1, <3>2 DEF UserRows
  <2> HIDE DEF i, row
  <2> QED BY <1>1, <2>1, <2>2, <2>3
<1> QED BY <1>2, <1>3

\* What Return leaves is well typed.
LEMMA ReturnType ==
  ASSUME TypeOK, NEW s \in Servers, pc[s] # "idle", NEW value \in Int, NEW date,
         Return(s, value, date)
  PROVE  /\ pc' \in [Servers -> Places] /\ result' \in [Servers -> Int]
         /\ \A t \in Servers : pc'[t] # "idle" => pc[t] # "idle"
         /\ creation' = [creation EXCEPT ![s] = date]
<1>1. "returned" \in Places BY DEF Places
<1> QED BY <1>1 DEF Return, TypeOK

LEMMA InitType == AccountInit => TypeOK
<1> SUFFICES ASSUME AccountInit PROVE TypeOK
  OBVIOUS
<1>1. NoUser \in UserInfos
  <2>1. -1 \in Int BY SMT
  <2> QED BY <2>1 DEF NoUser, UserInfos
<1>2. "idle" \in Places BY DEF Places
<1>3. 0 \in Nat /\ 1 \in Nat /\ 0 \in Int /\ NoDate \in Nat BY DEF NoDate
<1> QED BY <1>1, <1>2, <1>3, BoundAssumption, FoldedAssumption DEF TypeOK, AccountInit

-----------------------------------------------------------------------------
\* Every step keeps the types.

\* The dates still are dates of rows when `user` has not become shorter.
LEMMA DatesStay ==
  ASSUME TypeOK, NEW s \in Servers, Len(user') \in Nat, Len(user') >= Len(user),
         NEW date \in {NoDate} \union (FirstId .. FirstId + Len(user') - 1),
         creation' = creation \/ creation' = [creation EXCEPT ![s] = date]
  PROVE  DatesOK'
<1>1. Len(user) \in Nat /\ FirstId \in Nat BY BoundAssumption DEF TypeOK
<1>2. date \in Nat BY <1>1, SMT DEF NoDate
<1>3. creation' \in [Servers -> Nat] BY <1>2 DEF TypeOK
<1>4. ASSUME NEW t \in Servers
      PROVE  creation'[t] \in {NoDate} \union (FirstId .. FirstId + Len(user') - 1)
  <2>1. creation'[t] = creation[t] \/ creation'[t] = date BY DEF TypeOK
  <2>2. creation[t] \in {NoDate} \union (FirstId .. FirstId + Len(user) - 1) BY DEF TypeOK
  <2>3. CASE creation'[t] = date BY <2>3
  <2>4. CASE creation'[t] = creation[t] BY <1>1, <2>2, <2>4, SMT
  <2> QED BY <2>1, <2>3, <2>4
<1> QED BY <1>3, <1>4 DEF DatesOK

LEMMA CallTypes ==
  ASSUME TypeOK, NEW s \in Servers, NEW op \in Operations, NEW email \in Emails,
         NEW password \in Passwords, Call(s, op, email, password)
  PROVE  TypeOK'
<1>1. [op |-> op, email |-> email, password |-> password] \in Requests BY DEF Requests
<1>2. [op |-> op, email |-> email, password |-> password] # NoCall
  BY DEF NoCall, Operations
<1>3. calls[s] - 1 \in Nat
  <2>1. calls[s] \in Nat /\ calls[s] > 0 BY DEF TypeOK, Call
  <2> QED BY <2>1
<1>4. {"findEmail", "selectAuth"} \subseteq Places BY DEF Places
<1>5. ServersOK'
  BY <1>1, <1>2, <1>3, <1>4 DEF TypeOK, ServersOK, Call, histories
<1>6. TablesOK' /\ DatesOK' BY DEF TypeOK, TablesOK, DatesOK, Call, tables
<1> QED BY <1>5, <1>6, TypePartsNext

\* A call goes back to nothing.
LEMMA ForgetTypes ==
  ASSUME TypeOK, NEW s \in Servers, Forget(s)
  PROVE  /\ pc' \in [Servers -> Places]
         /\ call' \in [Servers -> {NoCall} \union Requests]
         /\ \A t \in Servers : pc'[t] # "idle" => call'[t] # NoCall
         /\ thisUser' \in [Servers -> UserInfos]
         /\ creation' = [creation EXCEPT ![s] = NoDate]
         /\ result' \in [Servers -> Int]
<1>1. NoUser \in UserInfos
  <2>1. -1 \in Int BY SMT
  <2> QED BY <2>1 DEF NoUser, UserInfos
<1>2. "idle" \in Places BY DEF Places
<1> QED BY <1>1, <1>2 DEF Forget, TypeOK

LEMMA ResumeTypes ==
  ASSUME TypeOK, NEW s \in Servers, Resume(s)
  PROVE  TypeOK'
<1>1. ServersOK' BY ForgetTypes DEF ServersOK, TypeOK, Resume, bounds, histories
<1>2. TablesOK' BY DEF TypeOK, TablesOK, Resume, tables
<1>3. DatesOK'
  <2>1. Len(user') = Len(user) /\ Len(user) \in Nat BY DEF TypeOK, Resume, tables
  <2>2. creation' = [creation EXCEPT ![s] = NoDate] BY ForgetTypes DEF Resume
  <2>3. Len(user') \in Nat /\ Len(user') >= Len(user) BY <2>1
  <2> QED BY <2>2, <2>3, DatesStay
<1> QED BY <1>1, <1>2, <1>3, TypePartsNext

LEMMA RestartTypes ==
  ASSUME TypeOK, NEW s \in Servers, Restart(s)
  PROVE  TypeOK'
<1>1. restarts - 1 \in Nat /\ run[s] + 1 \in Nat
  <2>1. restarts \in Nat /\ restarts > 0 /\ run[s] \in Nat BY DEF TypeOK, Restart
  <2> QED BY <2>1
<1>2. ServersOK' BY <1>1, ForgetTypes DEF ServersOK, TypeOK, Restart
<1>3. TablesOK' BY DEF TypeOK, TablesOK, Restart, tables
<1>4. DatesOK'
  <2>1. Len(user') = Len(user) /\ Len(user) \in Nat BY DEF TypeOK, Restart, tables
  <2>2. creation' = [creation EXCEPT ![s] = NoDate] BY ForgetTypes DEF Restart
  <2>3. Len(user') \in Nat /\ Len(user') >= Len(user) BY <2>1
  <2> QED BY <2>2, <2>3, DatesStay
<1> QED BY <1>2, <1>3, <1>4, TypePartsNext

\* A step that ends a call and leaves the servers' other variables alone.
LEMMA EndedTypes ==
  ASSUME TypeOK, NEW s \in Servers, pc[s] # "idle",
         NEW value \in Int, NEW date, Return(s, value, date),
         UNCHANGED <<call, thisUser, calls, restarts, run, unanswered>>,
         gUserId' \in [Servers -> Nat], failures' \in Nat
  PROVE  ServersOK'
BY ReturnType DEF ServersOK, TypeOK

\* A step that leads on to the next statement.
LEMMA OnTypes ==
  ASSUME TypeOK, NEW s \in Servers, pc[s] # "idle",
         NEW place \in Places, pc' = [pc EXCEPT ![s] = place],
         UNCHANGED <<call, result, calls, restarts, run>>,
         thisUser' \in [Servers -> UserInfos],
         gUserId' \in [Servers -> Nat], failures' \in Nat,
         unanswered' \in [Emails \union {NoEmail} -> Nat]
  PROVE  ServersOK'
BY DEF ServersOK, TypeOK

\* An exception leaves a number of further exceptions.
LEMMA ThrowsType ==
  ASSUME TypeOK, NEW s \in Servers, QueryThrows(s) \/ Throws
  PROVE  failures' \in Nat
<1>1. CASE Throws
  <2>1. failures \in Nat /\ failures > 0 /\ failures' = failures - 1
    BY <1>1 DEF TypeOK, Throws
  <2> QED BY <2>1
<1>2. CASE failures' = failures BY <1>2 DEF TypeOK
<1> QED BY <1>1, <1>2 DEF QueryThrows

\* The tables and the dates when neither table changes.
LEMMA SameTables ==
  ASSUME TypeOK, NEW s \in Servers, UNCHANGED tables,
         NEW date \in {NoDate} \union (FirstId .. FirstId + Len(user) - 1),
         creation' = creation \/ creation' = [creation EXCEPT ![s] = date]
  PROVE  TablesOK' /\ DatesOK'
<1>1. UNCHANGED <<web_auth, user>> BY DEF tables
<1>2. Len(user) \in Nat BY DEF TypeOK
<1>3. Len(user') \in Nat /\ Len(user') >= Len(user) BY <1>1, <1>2
<1>4. DatesOK' BY <1>1, <1>3, DatesStay
<1>5. TablesOK' BY <1>1 DEF TablesOK, TypeOK
<1> QED BY <1>4, <1>5

LEMMA FindTypes ==
  ASSUME TypeOK, NEW s \in Servers, FindEmail(s)
  PROVE  TypeOK'
<1>1. pc[s] # "idle" /\ UNCHANGED <<tables, gUserId, call, thisUser, calls, failures,
                                    restarts, run, unanswered>>
  BY DEF FindEmail, bounds
<1>2. CASE Return(s, -1, NoDate)
  <2>1. -1 \in Int BY SMT
  <2>2. ServersOK' BY <1>1, <1>2, <2>1, EndedTypes DEF TypeOK
  <2>3. TablesOK' /\ DatesOK' BY <1>1, <1>2, SameTables DEF Return
  <2> QED BY <2>2, <2>3, TypePartsNext
<1>3. CASE pc' = [pc EXCEPT ![s] = "insertAuth"] /\ UNCHANGED <<creation, result, results>>
  <2>1. "insertAuth" \in Places BY DEF Places
  <2>2. ServersOK' BY <1>1, <1>3, <2>1, OnTypes DEF TypeOK
  <2>3. TablesOK' /\ DatesOK' BY <1>1, <1>3, SameTables
  <2> QED BY <2>2, <2>3, TypePartsNext
<1> QED BY <1>2, <1>3 DEF FindEmail

LEMMA FindThrowsTypes ==
  ASSUME TypeOK, NEW s \in Servers, FindEmailThrows(s)
  PROVE  TypeOK'
<1>1. "insertAuth" \in Places BY DEF Places
<1>2. unanswered' \in [Emails \union {NoEmail} -> Nat]
  <2>1. call[s].email \in Emails BY CallType DEF FindEmailThrows
  <2>2. unanswered[call[s].email] + 1 \in Nat
    <3>1. unanswered[call[s].email] \in Nat BY <2>1 DEF TypeOK
    <3> QED BY <3>1
  <2> QED BY <2>1, <2>2 DEF TypeOK, FindEmailThrows
<1>3. failures' \in Nat BY ThrowsType DEF FindEmailThrows
<1>4. ServersOK' BY <1>1, <1>2, <1>3, OnTypes DEF FindEmailThrows, TypeOK
<1>5. TablesOK' /\ DatesOK' BY SameTables DEF FindEmailThrows
<1> QED BY <1>4, <1>5, TypePartsNext

\* The counter after it was incremented once or twice.
LEMMA CounterType ==
  ASSUME TypeOK, NEW s \in Servers
  PROVE  /\ gUserId[s] + 1 \in Nat /\ (gUserId[s] + 1) + 1 \in Nat
         /\ gUserId[s] + 1 \in Int /\ (gUserId[s] + 1) + 1 \in Int
<1>1. gUserId[s] \in Nat BY DEF TypeOK
<1> QED BY <1>1

LEMMA InsertAuthTypes ==
  ASSUME TypeOK, NEW s \in Servers, InsertAuth(s)
  PROVE  TypeOK'
<1>1. "insertUser" \in Places BY DEF Places
<1>2. gUserId' \in [Servers -> Nat] BY CounterType DEF InsertAuth, TypeOK
<1>3. ServersOK' BY <1>1, <1>2, OnTypes DEF InsertAuth, TypeOK, bounds, histories
<1>4. TablesOK'
  <2>1. PICK salt \in Salts : web_auth' = Append(web_auth, NewAuth(s, salt)) BY DEF InsertAuth
  <2>2. NewAuth(s, salt) \in AuthRows BY NewAuthType DEF InsertAuth
  <2> QED BY <2>1, <2>2, AppendProperties DEF InsertAuth, TypeOK, TablesOK
<1>5. DatesOK' BY DEF InsertAuth, TypeOK, DatesOK
<1> QED BY <1>3, <1>4, <1>5, TypePartsNext

\* Whatever was thrown at the first INSERT, the call ends with the counter.
LEMMA ReportTypes ==
  ASSUME TypeOK, NEW s \in Servers, pc[s] # "idle",
         NEW counter \in {gUserId[s], gUserId[s] + 1}, ReportUser(s, counter),
         UNCHANGED <<call, thisUser, calls, restarts, run, unanswered>>, failures' \in Nat
  PROVE  ServersOK' /\ creation' = [creation EXCEPT ![s] = NoDate]
<1>1. counter + 1 \in Nat /\ counter + 1 \in Int BY CounterType
<1>2. gUserId' \in [Servers -> Nat] BY <1>1 DEF ReportUser, TypeOK
<1>3. Return(s, counter + 1, NoDate) BY DEF ReportUser
<1>4. ServersOK' BY <1>1, <1>2, <1>3, EndedTypes
<1> QED BY <1>3, <1>4 DEF Return

LEMMA UnconnectedTypes ==
  ASSUME TypeOK, NEW s \in Servers, InsertAuthUnconnected(s)
  PROVE  TypeOK'
<1>1. failures' \in Nat BY ThrowsType DEF InsertAuthUnconnected
<1>2. ServersOK' /\ creation' = [creation EXCEPT ![s] = NoDate]
  BY <1>1, ReportTypes DEF InsertAuthUnconnected
<1>3. TablesOK' /\ DatesOK' BY <1>2, SameTables DEF InsertAuthUnconnected
<1> QED BY <1>2, <1>3, TypePartsNext

LEMMA InsertAuthThrowsTypes ==
  ASSUME TypeOK, NEW s \in Servers, InsertAuthThrows(s)
  PROVE  TypeOK'
<1>1. failures' \in Nat BY ThrowsType DEF InsertAuthThrows
<1>2. ServersOK' /\ creation' = [creation EXCEPT ![s] = NoDate]
  BY <1>1, ReportTypes DEF InsertAuthThrows
<1>3. DatesOK'
  <2>1. Len(user) \in Nat /\ UNCHANGED user BY DEF TypeOK, InsertAuthThrows
  <2>2. Len(user') \in Nat /\ Len(user') >= Len(user) BY <2>1
  <2> QED BY <1>2, <2>2, DatesStay
<1>4. TablesOK'
  <2>1. CASE UNCHANGED web_auth BY <2>1 DEF InsertAuthThrows, TypeOK, TablesOK
  <2>2. CASE \E salt \in Salts : web_auth' = Append(web_auth, NewAuth(s, salt))
    <3>1. PICK salt \in Salts : web_auth' = Append(web_auth, NewAuth(s, salt)) BY <2>2
    <3>2. NewAuth(s, salt) \in AuthRows BY NewAuthType DEF InsertAuthThrows
    <3> QED BY <3>1, <3>2, AppendProperties DEF InsertAuthThrows, TypeOK, TablesOK
  <2> QED BY <2>1, <2>2 DEF InsertAuthThrows
<1> QED BY <1>2, <1>3, <1>4, TypePartsNext

\* The table `user` with one row more.
LEMMA MoreUsers ==
  ASSUME TypeOK, NEW s \in Servers, user' = Append(user, NewUser(s)), UNCHANGED web_auth,
         creation' = [creation EXCEPT ![s] = NoDate]
  PROVE  TablesOK' /\ DatesOK'
<1>1. NewUser(s) \in UserRows BY NewUserType
<1>2. user' \in Seq(UserRows) /\ Len(user') = Len(user) + 1 /\ Len(user) \in Nat
  BY <1>1, AppendProperties DEF TypeOK
<1>3. Len(user') \in Nat /\ Len(user') >= Len(user) BY <1>2
<1>4. DatesOK' BY <1>3, DatesStay
<1>5. TablesOK' BY <1>2 DEF TypeOK, TablesOK
<1> QED BY <1>4, <1>5

LEMMA InsertUserTypes ==
  ASSUME TypeOK, NEW s \in Servers, InsertUser(s)
  PROVE  TypeOK'
<1>1. failures' \in Nat BY DEF InsertUser, bounds, TypeOK
<1>2. ServersOK' /\ creation' = [creation EXCEPT ![s] = NoDate]
  BY <1>1, ReportTypes DEF InsertUser, bounds
<1>3. TablesOK' /\ DatesOK' BY <1>2, MoreUsers DEF InsertUser
<1> QED BY <1>2, <1>3, TypePartsNext

LEMMA InsertUserThrowsTypes ==
  ASSUME TypeOK, NEW s \in Servers, InsertUserThrows(s)
  PROVE  TypeOK'
<1>1. failures' \in Nat BY ThrowsType DEF InsertUserThrows
<1>2. ServersOK' /\ creation' = [creation EXCEPT ![s] = NoDate]
  BY <1>1, ReportTypes DEF InsertUserThrows
<1>3. CASE UNCHANGED user
  <2>1. UNCHANGED tables BY <1>3 DEF InsertUserThrows, tables
  <2>2. TablesOK' /\ DatesOK' BY <1>2, <2>1, SameTables
  <2> QED BY <1>2, <2>2, TypePartsNext
<1>4. CASE user' = Append(user, NewUser(s))
  <2>1. TablesOK' /\ DatesOK' BY <1>2, <1>4, MoreUsers DEF InsertUserThrows
  <2> QED BY <1>2, <2>1, TypePartsNext
<1> QED BY <1>3, <1>4 DEF InsertUserThrows

\* What is kept of the row of web_auth that was found.
ReadRow(row) ==
  [email |-> row.email, salt |-> row.salt,
   hashedPassword |-> row.hashedPassword, userId |-> row.userId]

LEMMA SelectAuthTypes ==
  ASSUME TypeOK, NEW s \in Servers, SelectAuth(s)
  PROVE  TypeOK'
<1>1. pc[s] # "idle" /\ UNCHANGED <<tables, gUserId, call, calls, failures, restarts,
                                    run, unanswered>>
  BY DEF SelectAuth, bounds
<1>2. CASE Return(s, -1, NoDate) /\ UNCHANGED thisUser
  <2>1. -1 \in Int BY SMT
  <2>2. ServersOK' BY <1>1, <1>2, <2>1, EndedTypes DEF TypeOK
  <2>3. TablesOK' /\ DatesOK' BY <1>1, <1>2, SameTables DEF Return
  <2> QED BY <2>2, <2>3, TypePartsNext
<1>3. CASE /\ pc' = [pc EXCEPT ![s] = "selectUser"]
           /\ \E row \in Finds(call[s].email) :
                thisUser' = [thisUser EXCEPT ![s] = ReadRow(row)]
           /\ UNCHANGED <<creation, result, results>>
  <2>1. "selectUser" \in Places BY DEF Places
  <2>2. \A row \in Finds(call[s].email) : ReadRow(row) \in UserInfos
    <3>1. call[s].email \in Emails \union {NoEmail} BY <1>1, CallType
    <3> QED BY <3>1, FindsType DEF ReadRow, UserInfos
  <2>3. thisUser' \in [Servers -> UserInfos] BY <1>3, <2>2 DEF TypeOK
  <2>4. ServersOK' BY <1>1, <1>3, <2>1, <2>3, OnTypes DEF TypeOK
  <2>5. TablesOK' /\ DatesOK' BY <1>1, <1>3, SameTables
  <2> QED BY <2>4, <2>5, TypePartsNext
<1> QED BY <1>2, <1>3 DEF SelectAuth, ReadRow

LEMMA SelectUserTypes ==
  ASSUME TypeOK, NEW s \in Servers, SelectUser(s)
  PROVE  TypeOK'
<1>1. "updateUser" \in Places BY DEF Places
<1>2. ServersOK' BY <1>1, OnTypes DEF SelectUser, bounds, histories, TypeOK
<1>3. TablesOK' /\ DatesOK'
  <2> DEFINE date == IF HasRow(thisUser[s].userId) THEN thisUser[s].userId ELSE NoDate
  <2>1. date \in {NoDate} \union (FirstId .. FirstId + Len(user) - 1) BY DEF HasRow
  <2>2. creation' = [creation EXCEPT ![s] = date] /\ UNCHANGED tables BY DEF SelectUser
  <2> HIDE DEF date
  <2> QED BY <2>1, <2>2, SameTables
<1> QED BY <1>2, <1>3, TypePartsNext

LEMMA CheckedType ==
  ASSUME TypeOK, NEW s \in Servers
  PROVE  Checked(s) \in Int
<1>1. thisUser[s].userId \in Int BY DEF TypeOK, UserInfos
<1>2. -4 \in Int BY SMT
<1> QED BY <1>1, <1>2 DEF Checked

\* The tables after the UPDATE.
LEMMA LoggedInTypes ==
  ASSUME TypeOK, NEW s \in Servers, pc[s] # "idle", user' = LoggedIn(s), UNCHANGED web_auth,
         NEW date \in {NoDate} \union (FirstId .. FirstId + Len(user) - 1),
         creation' = [creation EXCEPT ![s] = date]
  PROVE  TablesOK' /\ DatesOK'
<1>1. Len(user) \in Nat BY DEF TypeOK
<1>2. user' \in Seq(UserRows) /\ Len(user') = Len(user) BY LoggedInType
<1>3. Len(user') \in Nat /\ Len(user') >= Len(user) BY <1>1, <1>2
<1>4. DatesOK' BY <1>2, <1>3, DatesStay
<1>5. TablesOK' BY <1>2 DEF TablesOK, TypeOK
<1> QED BY <1>4, <1>5

LEMMA UpdateUserTypes ==
  ASSUME TypeOK, NEW s \in Servers, UpdateUser(s)
  PROVE  TypeOK'
<1>1. /\ pc[s] # "idle" /\ Return(s, Checked(s), creation[s]) /\ user' = LoggedIn(s)
      /\ UNCHANGED <<web_auth, gUserId, call, thisUser, calls, failures, restarts,
                     run, unanswered>>
  BY DEF UpdateUser, bounds
<1>2. ServersOK' BY <1>1, CheckedType, EndedTypes DEF TypeOK
<1>3. creation[s] \in {NoDate} \union (FirstId .. FirstId + Len(user) - 1) BY DEF TypeOK
<1>4. TablesOK' /\ DatesOK' BY <1>1, <1>3, LoggedInTypes DEF Return
<1> QED BY <1>2, <1>4, TypePartsNext

LEMMA SelectThrowsTypes ==
  ASSUME TypeOK, NEW s \in Servers, SelectThrows(s)
  PROVE  TypeOK'
<1>1. /\ pc[s] # "idle" /\ Return(s, -1, NoDate) /\ failures' \in Nat
      /\ UNCHANGED <<web_auth, gUserId, call, thisUser, calls, restarts, run, unanswered>>
  BY ThrowsType DEF SelectThrows
<1>2. -1 \in Int BY SMT
<1>3. ServersOK' BY <1>1, <1>2, EndedTypes DEF TypeOK
<1>4. CASE UNCHANGED user
  <2>1. TablesOK' /\ DatesOK' BY <1>1, <1>4, SameTables DEF Return, tables
  <2> QED BY <1>3, <2>1, TypePartsNext
<1>5. CASE user' = LoggedIn(s)
  <2>1. TablesOK' /\ DatesOK' BY <1>1, <1>5, LoggedInTypes DEF Return
  <2> QED BY <1>3, <2>1, TypePartsNext
<1> QED BY <1>4, <1>5 DEF SelectThrows

LEMMA StutterTypes ==
  ASSUME TypeOK, UNCHANGED accountVars
  PROVE  TypeOK'
<1>1. UNCHANGED <<tables, locals, bounds, histories>> BY DEF accountVars
<1> QED BY <1>1 DEF TypeOK, tables, locals, bounds, histories

LEMMA TypeStep == TypeOK /\ [Next]_accountVars => TypeOK'
<1> SUFFICES ASSUME TypeOK, [Next]_accountVars PROVE TypeOK'
  OBVIOUS
<1>1. CASE UNCHANGED accountVars BY <1>1, StutterTypes
<1>2. ASSUME NEW s \in Servers, NEW op \in Operations, NEW email \in Emails,
             NEW password \in Passwords, Call(s, op, email, password)
      PROVE  TypeOK'
  BY <1>2, CallTypes
<1>3. ASSUME NEW s \in Servers, Step(s) PROVE TypeOK'
  BY <1>3, FindTypes, FindThrowsTypes, InsertAuthTypes, UnconnectedTypes,
     InsertAuthThrowsTypes, InsertUserTypes, InsertUserThrowsTypes, SelectAuthTypes,
     SelectUserTypes, UpdateUserTypes, SelectThrowsTypes DEF Step
<1>4. ASSUME NEW s \in Servers, Resume(s) \/ Restart(s) PROVE TypeOK'
  BY <1>4, ResumeTypes, RestartTypes
<1> QED BY <1>1, <1>2, <1>3, <1>4 DEF Next

\* TypeOK: of every call it is known what it is for, and every date that was read is
\* the date of a row, whatever is thrown and whoever is restarted in between.
THEOREM TypeCorrect == Spec => []TypeOK
  BY InitType, TypeStep, PTL DEF Spec

-----------------------------------------------------------------------------
\* What the steps of a server change.

IsCalled(s) ==
  \E op \in Operations, email \in Emails, password \in Passwords : Call(s, op, email, password)

\* The statement that follows in a call.
Moves == {<<"findEmail", "insertAuth">>, <<"insertAuth", "insertUser">>,
          <<"selectAuth", "selectUser">>, <<"selectUser", "updateUser">>}

Creating == {"findEmail", "insertAuth", "insertUser"}
Looking == {"selectAuth", "selectUser", "updateUser"}

LEMMA OneMove ==
  ASSUME TypeOK, NEW s \in Servers, Step(s)
  PROVE  /\ UNCHANGED call /\ pc[s] \in Creating \union Looking
         /\ \E place : /\ pc' = [pc EXCEPT ![s] = place]
                       /\ place = "returned" \/ <<pc[s], place>> \in Moves
<1>1. CASE FindEmail(s) BY <1>1 DEF FindEmail, Return, Moves, Creating
<1>2. CASE FindEmailThrows(s) BY <1>2 DEF FindEmailThrows, Moves, Creating
<1>3. CASE InsertAuth(s) BY <1>3 DEF InsertAuth, Moves, Creating
<1>4. CASE InsertAuthUnconnected(s)
  BY <1>4 DEF InsertAuthUnconnected, ReportUser, Return, Creating
<1>5. CASE InsertAuthThrows(s) BY <1>5 DEF InsertAuthThrows, ReportUser, Return, Creating
<1>6. CASE InsertUser(s) BY <1>6 DEF InsertUser, ReportUser, Return, Creating
<1>7. CASE InsertUserThrows(s) BY <1>7 DEF InsertUserThrows, ReportUser, Return, Creating
<1>8. CASE SelectAuth(s) BY <1>8 DEF SelectAuth, Return, Moves, Looking
<1>9. CASE SelectUser(s) BY <1>9 DEF SelectUser, Moves, Looking
<1>10. CASE UpdateUser(s) BY <1>10 DEF UpdateUser, Return, Looking
<1>11. CASE SelectThrows(s) BY <1>11 DEF SelectThrows, Return, Looking
<1> QED BY <1>1, <1>2, <1>3, <1>4, <1>5, <1>6, <1>7, <1>8, <1>9, <1>10, <1>11 DEF Step

\* What a server knows of its call, no other server touches.
LEMMA OthersKept ==
  ASSUME TypeOK, NEW s \in Servers, IsCalled(s) \/ Step(s) \/ Resume(s) \/ Restart(s),
         NEW t \in Servers, t # s
  PROVE  pc'[t] = pc[t] /\ call'[t] = call[t] /\ thisUser'[t] = thisUser[t]
<1>1. CASE IsCalled(s) BY <1>1 DEF IsCalled, Call, TypeOK
<1>2. CASE Resume(s) \/ Restart(s) BY <1>2 DEF Resume, Restart, Forget, TypeOK
<1>3. CASE Step(s)
  <2>1. pc'[t] = pc[t] /\ call'[t] = call[t] BY <1>3, OneMove DEF TypeOK
  <2>2. CASE SelectAuth(s) BY <2>1, <2>2 DEF SelectAuth, TypeOK
  <2>3. CASE ~SelectAuth(s)
    <3>1. UNCHANGED thisUser
      BY <1>3, <2>3 DEF Step, FindEmail, FindEmailThrows, InsertAuth, InsertAuthUnconnected,
         InsertAuthThrows, InsertUser, InsertUserThrows, SelectUser, UpdateUser, SelectThrows
    <3> QED BY <2>1, <3>1
  <2> QED BY <2>2, <2>3
<1> QED BY <1>1, <1>2, <1>3

\* The table web_auth only grows, by a row at a time, and only at the first INSERT.
LEMMA OneRowMore ==
  ASSUME TypeOK, NEW s \in Servers, IsCalled(s) \/ Step(s) \/ Resume(s) \/ Restart(s)
  PROVE  \/ UNCHANGED web_auth
         \/ pc[s] = "insertAuth" /\ \E salt \in Salts : web_auth' = Append(web_auth, NewAuth(s, salt))
<1>1. CASE IsCalled(s) BY <1>1 DEF IsCalled, Call, tables
<1>2. CASE Resume(s) \/ Restart(s) BY <1>2 DEF Resume, Restart, tables
<1>3. CASE Step(s)
  BY <1>3 DEF Step, FindEmail, FindEmailThrows, InsertAuth, InsertAuthUnconnected,
     InsertAuthThrows, InsertUser, InsertUserThrows, SelectAuth, SelectUser, UpdateUser,
     SelectThrows, tables
<1> QED BY <1>1, <1>2, <1>3

\* The rows of an e-mail stay what they are.
LEMMA RowsStay ==
  ASSUME TypeOK, [Next]_accountVars
  PROVE  /\ \A i \in DOMAIN web_auth : i \in DOMAIN web_auth' /\ web_auth'[i] = web_auth[i]
         /\ \A email : RowsOf(email) \subseteq RowsOf(email)'
<1>1. \/ UNCHANGED web_auth
      \/ \E row \in AuthRows : web_auth' = Append(web_auth, row)
  <2>1. CASE UNCHANGED accountVars BY <2>1 DEF accountVars, tables
  <2>2. ASSUME NEW s \in Servers, IsCalled(s) \/ Step(s) \/ Resume(s) \/ Restart(s)
        PROVE  \/ UNCHANGED web_auth
               \/ \E row \in AuthRows : web_auth' = Append(web_auth, row)
    BY <2>2, OneRowMore, NewAuthType
  <2> QED BY <2>1, <2>2 DEF Next, IsCalled
<1>2. \A i \in DOMAIN web_auth : i \in DOMAIN web_auth' /\ web_auth'[i] = web_auth[i]
  <2>1. CASE UNCHANGED web_auth BY <2>1
  <2>2. CASE \E row \in AuthRows : web_auth' = Append(web_auth, row)
    BY <2>2, AppendProperties DEF TypeOK
  <2> QED BY <1>1, <2>1, <2>2
<1> QED BY <1>2 DEF RowsOf

-----------------------------------------------------------------------------
\* What a server has read is in the table.

OpsOK ==
  \A s \in Servers :
    /\ pc[s] \in Creating => call[s].op = "create"
    /\ pc[s] \in Looking => call[s].op = "authenticate"

\* A row was made for what a server remembers of an account.
HasBeenRead(s) ==
  \E i \in RowsOf(call[s].email) :
    /\ thisUser[s].salt = web_auth[i].salt
    /\ thisUser[s].hashedPassword = web_auth[i].hashedPassword
    /\ thisUser[s].userId = web_auth[i].userId

\* An empty e-mail is equal to that of an empty UserInfo.
ReadOK ==
  \A s \in Servers :
    pc[s] \in {"selectUser", "updateUser"} =>
      HasBeenRead(s) \/ (call[s].email = NoEmail /\ thisUser[s].userId = -1)

LEMMA OpsStep ==
  ASSUME TypeOK, OpsOK, NEW s \in Servers, IsCalled(s) \/ Step(s) \/ Resume(s) \/ Restart(s)
  PROVE  OpsOK'
<1> SUFFICES ASSUME NEW t \in Servers
             PROVE  /\ pc'[t] \in Creating => call'[t].op = "create"
                    /\ pc'[t] \in Looking => call'[t].op = "authenticate"
  BY DEF OpsOK
<1>1. CASE t # s BY <1>1, OthersKept DEF OpsOK
<1>2. CASE t = s /\ IsCalled(s)
  <2>1. PICK op \in Operations, email \in Emails, password \in Passwords :
          Call(s, op, email, password)
    BY <1>2 DEF IsCalled
  <2>2. call'[t].op = op /\ pc'[t] = IF op = "create" THEN "findEmail" ELSE "selectAuth"
    BY <1>2, <2>1 DEF Call, TypeOK
  <2> QED BY <2>2 DEF Operations, Creating, Looking
<1>3. CASE t = s /\ (Resume(s) \/ Restart(s))
  <2>1. pc'[t] = "idle" BY <1>3 DEF Resume, Restart, Forget, TypeOK
  <2> QED BY <2>1 DEF Creating, Looking
<1>4. CASE t = s /\ Step(s)
  <2>1. PICK place : /\ pc' = [pc EXCEPT ![s] = place]
                     /\ place = "returned" \/ <<pc[s], place>> \in Moves
    BY <1>4, OneMove
  <2>2. pc'[t] = place /\ call'[t] = call[t] BY <1>4, <2>1, OneMove DEF TypeOK
  <2>3. CASE place = "returned" BY <2>2, <2>3 DEF Creating, Looking
  <2>4. CASE <<pc[s], place>> \in Moves
    BY <1>4, <2>2, <2>4 DEF OpsOK, Moves, Creating, Looking
  <2> QED BY <2>1, <2>3, <2>4
<1> QED BY <1>1, <1>2, <1>3, <1>4

\* What was read stays read.
LEMMA StaysRead ==
  ASSUME TypeOK, [Next]_accountVars, NEW t \in Servers, HasBeenRead(t),
         thisUser'[t] = thisUser[t], call'[t] = call[t]
  PROVE  HasBeenRead(t)'
<1>1. PICK i \in RowsOf(call[t].email) :
        /\ thisUser[t].salt = web_auth[i].salt
        /\ thisUser[t].hashedPassword = web_auth[i].hashedPassword
        /\ thisUser[t].userId = web_auth[i].userId
  BY DEF HasBeenRead
<1>2. i \in DOMAIN web_auth BY DEF RowsOf
<1>3. i \in RowsOf(call[t].email)' /\ web_auth'[i] = web_auth[i] BY <1>2, RowsStay DEF RowsOf
<1> QED BY <1>1, <1>3 DEF HasBeenRead

\* The first SELECT goes on with a row of that e-mail.
LEMMA SelectedRow ==
  ASSUME TypeOK, NEW email \in Emails, NEW row \in Finds(email), row.email = email
  PROVE  \/ email = NoEmail /\ row.userId = -1
         \/ \E i \in RowsOf(email) : row = web_auth[i]
<1>1. CASE row = NoUser
  <2>1. NoUser.email = NoEmail /\ NoUser.userId = -1 BY DEF NoUser
  <2> QED BY <1>1, <2>1
<1>2. CASE \E i \in DOMAIN web_auth : row = web_auth[i] BY <1>2 DEF RowsOf
<1> QED BY <1>1, <1>2, FindsRow

LEMMA ReadStep ==
  ASSUME TypeOK, ReadOK, Next, NEW s \in Servers,
         IsCalled(s) \/ Step(s) \/ Resume(s) \/ Restart(s)
  PROVE  ReadOK'
<1> SUFFICES ASSUME NEW t \in Servers, pc'[t] \in {"selectUser", "updateUser"}
             PROVE  HasBeenRead(t)' \/ (call'[t].email = NoEmail /\ thisUser'[t].userId = -1)
  BY DEF ReadOK
<1>1. CASE t # s
  <2>1. pc'[t] = pc[t] /\ call'[t] = call[t] /\ thisUser'[t] = thisUser[t]
    BY <1>1, OthersKept
  <2>2. HasBeenRead(t) \/ (call[t].email = NoEmail /\ thisUser[t].userId = -1)
    BY <2>1 DEF ReadOK
  <2> QED BY <2>1, <2>2, StaysRead
<1>2. CASE t = s /\ SelectAuth(s)
  <2>0. UNCHANGED <<call, web_auth>> BY <1>2 DEF SelectAuth, tables
  <2>1. PICK row \in Finds(call[s].email) :
          row.email = call[s].email /\ thisUser'[s] = ReadRow(row)
    BY <1>2 DEF SelectAuth, Return, ReadRow, TypeOK
  <2>2. /\ thisUser'[s].salt = row.salt
        /\ thisUser'[s].hashedPassword = row.hashedPassword
        /\ thisUser'[s].userId = row.userId
    BY <2>1 DEF ReadRow
  <2>3. call[s].email \in Emails BY <1>2, CallType DEF SelectAuth
  <2>4. CASE call[s].email = NoEmail /\ row.userId = -1
    BY <1>2, <2>0, <2>2, <2>4
  <2>5. CASE \E i \in RowsOf(call[s].email) : row = web_auth[i]
    BY <1>2, <2>0, <2>2, <2>5 DEF HasBeenRead, RowsOf
  <2> QED BY <2>1, <2>3, <2>4, <2>5, SelectedRow
<1>3. CASE t = s /\ SelectUser(s)
  <2>1. pc[s] = "selectUser" /\ UNCHANGED <<call, thisUser>> BY <1>3 DEF SelectUser
  <2>2. HasBeenRead(t) \/ (call[t].email = NoEmail /\ thisUser[t].userId = -1)
    BY <1>3, <2>1 DEF ReadOK
  <2> QED BY <2>1, <2>2, StaysRead
<1>4. CASE t = s /\ ~SelectAuth(s) /\ ~SelectUser(s)
  <2>1. CASE IsCalled(s) BY <1>4, <2>1 DEF IsCalled, Call, TypeOK
  <2>2. CASE Resume(s) \/ Restart(s) BY <1>4, <2>2 DEF Resume, Restart, Forget, TypeOK
  <2>3. CASE Step(s)
    BY <1>4, <2>3 DEF Step, FindEmail, FindEmailThrows, InsertAuth, InsertAuthUnconnected,
       InsertAuthThrows, InsertUser, InsertUserThrows, UpdateUser, SelectThrows,
       ReportUser, Return, TypeOK
  <2> QED BY <2>1, <2>2, <2>3
<1> QED BY <1>1, <1>2, <1>3, <1>4

-----------------------------------------------------------------------------
\* What the calls return.

\* The two invariants, of one result.
Justified(r) ==
  /\ r.op = "create" /\ r.value = -1 => r.email = NoEmail \/ RowsOf(r.email) # {}
  /\ r.op = "authenticate" /\ r.value > 0 =>
       \E i \in RowsOf(r.email) :
         /\ web_auth[i].userId = r.value
         /\ web_auth[i].hashedPassword = Hash(r.password, web_auth[i].salt)

LEMMA AllJustified == (\A r \in results : Justified(r)) => RefusalHasAccount /\ LoginHasAccount
  BY DEF Justified, RefusalHasAccount, LoginHasAccount

\* The result of a call.
Result(s, value, date) ==
  [op |-> call[s].op, email |-> call[s].email, password |-> call[s].password,
   value |-> value, date |-> date]

\* createUserAccount never returns -1 after it has looked for the e-mail.
LEMMA ReportJustified ==
  ASSUME TypeOK, OpsOK, NEW s \in Servers, pc[s] \in Creating,
         NEW counter \in {gUserId[s], gUserId[s] + 1}
  PROVE  Justified(Result(s, counter + 1, NoDate))
<1>1. counter + 1 # -1
  <2>1. gUserId[s] \in Nat BY DEF TypeOK
  <2> QED BY <2>1
<1>2. call[s].op = "create" BY DEF OpsOK
<1> QED BY <1>1, <1>2 DEF Justified, Result

LEMMA FindJustified ==
  ASSUME TypeOK, OpsOK, NEW s \in Servers, pc[s] = "findEmail",
         NEW row \in Finds(call[s].email), row.email = call[s].email
  PROVE  Justified(Result(s, -1, NoDate))
<1>1. call[s].op = "create" BY DEF OpsOK, Creating
<1>2. call[s].email = NoEmail \/ RowsOf(call[s].email) # {} BY CallType, SelectedRow
<1> QED BY <1>1, <1>2 DEF Justified, Result

LEMMA MinusJustified ==
  ASSUME OpsOK, NEW s \in Servers, pc[s] \in Looking, NEW date
  PROVE  Justified(Result(s, -1, date))
<1>1. call[s].op = "authenticate" BY DEF OpsOK
<1>2. ~(-1 > 0) BY SMT
<1> QED BY <1>1, <1>2 DEF Justified, Result

\* A positive userId passed the comparison with the hash of its row.
LEMMA CheckJustified ==
  ASSUME TypeOK, OpsOK, ReadOK, NEW s \in Servers, pc[s] = "updateUser", NEW date
  PROVE  Justified(Result(s, Checked(s), date))
<1>1. call[s].op = "authenticate" BY DEF OpsOK, Looking
<1>2. ASSUME Checked(s) > 0
      PROVE  \E i \in RowsOf(call[s].email) :
               /\ web_auth[i].userId = Checked(s)
               /\ web_auth[i].hashedPassword = Hash(call[s].password, web_auth[i].salt)
  <2>1. ~(-4 > 0) /\ ~(-1 > 0) BY SMT
  <2>2. /\ Checked(s) = thisUser[s].userId
        /\ Hash(call[s].password, thisUser[s].salt) = thisUser[s].hashedPassword
    BY <1>2, <2>1 DEF Checked
  <2>3. HasBeenRead(s) BY <1>2, <2>1, <2>2 DEF ReadOK
  <2> QED BY <2>2, <2>3 DEF HasBeenRead
<1> QED BY <1>1, <1>2 DEF Justified, Result

\* A result that was justified by the rows remains so.
LEMMA StaysJustified ==
  ASSUME TypeOK, [Next]_accountVars, NEW r, Justified(r)
  PROVE  Justified(r)'
<1>1. \A i \in RowsOf(r.email) : i \in RowsOf(r.email)' /\ web_auth'[i] = web_auth[i]
  BY RowsStay DEF RowsOf
<1> QED BY <1>1 DEF Justified

LEMMA NewResults ==
  ASSUME TypeOK, OpsOK, ReadOK, NEW s \in Servers,
         IsCalled(s) \/ Step(s) \/ Resume(s) \/ Restart(s), NEW r \in results'
  PROVE  r \in results \/ Justified(r)
<1>1. CASE IsCalled(s) BY <1>1 DEF IsCalled, Call, histories
<1>2. CASE Resume(s) \/ Restart(s) BY <1>2 DEF Resume, Restart, histories
<1>3. CASE FindEmail(s)
  BY <1>3, FindJustified DEF FindEmail, Return, Result
<1>4. CASE FindEmailThrows(s) \/ InsertAuth(s) \/ SelectUser(s)
  BY <1>4 DEF FindEmailThrows, InsertAuth, SelectUser, histories
<1>5. CASE InsertAuthUnconnected(s)
  BY <1>5, ReportJustified DEF InsertAuthUnconnected, ReportUser, Return, Result, Creating
<1>6. CASE InsertAuthThrows(s)
  BY <1>6, ReportJustified DEF InsertAuthThrows, ReportUser, Return, Result, Creating
<1>7. CASE InsertUser(s)
  BY <1>7, ReportJustified DEF InsertUser, ReportUser, Return, Result, Creating
<1>8. CASE InsertUserThrows(s)
  BY <1>8, ReportJustified DEF InsertUserThrows, ReportUser, Return, Result, Creating
<1>9. CASE SelectAuth(s)
  BY <1>9, MinusJustified DEF SelectAuth, Return, Result, Looking
<1>10. CASE UpdateUser(s)
  BY <1>10, CheckJustified DEF UpdateUser, Return, Result
<1>11. CASE SelectThrows(s)
  BY <1>11, MinusJustified DEF SelectThrows, Return, Result, Looking
<1> QED BY <1>1, <1>2, <1>3, <1>4, <1>5, <1>6, <1>7, <1>8, <1>9, <1>10, <1>11 DEF Step

ReportsInv == TypeOK /\ OpsOK /\ ReadOK /\ \A r \in results : Justified(r)

LEMMA ReportsStep == ReportsInv /\ [Next]_accountVars => ReportsInv'
<1> SUFFICES ASSUME ReportsInv, [Next]_accountVars PROVE ReportsInv'
  OBVIOUS
<1>1. TypeOK' BY TypeStep DEF ReportsInv
<1>2. CASE UNCHANGED accountVars
  <2>1. UNCHANGED <<web_auth, pc, call, thisUser, results>>
    BY <1>2 DEF accountVars, tables, locals, histories
  <2>2. OpsOK' BY <2>1 DEF OpsOK, ReportsInv
  <2>3. ReadOK' BY <2>1 DEF ReadOK, ReportsInv, HasBeenRead, RowsOf
  <2>4. \A r \in results' : Justified(r)'
    BY <1>2, <2>1, StaysJustified DEF ReportsInv
  <2> QED BY <1>1, <2>2, <2>3, <2>4 DEF ReportsInv
<1>3. CASE Next
  <2>1. PICK s \in Servers : IsCalled(s) \/ Step(s) \/ Resume(s) \/ Restart(s)
    BY <1>3 DEF Next, IsCalled
  <2>2. OpsOK' BY <2>1, OpsStep DEF ReportsInv
  <2>3. ReadOK' BY <1>3, <2>1, ReadStep DEF ReportsInv
  <2>4. \A r \in results' : Justified(r)'
    BY <2>1, NewResults, StaysJustified DEF ReportsInv
  <2> QED BY <1>1, <2>2, <2>3, <2>4 DEF ReportsInv
<1> QED BY <1>2, <1>3

LEMMA ReportsInit == AccountInit => ReportsInv
<1> SUFFICES ASSUME AccountInit PROVE ReportsInv
  OBVIOUS
<1>1. \A s \in Servers : pc[s] = "idle" BY DEF AccountInit
<1>2. OpsOK /\ ReadOK BY <1>1 DEF OpsOK, ReadOK, Creating, Looking
<1>3. results = {} BY DEF AccountInit
<1> QED BY <1>2, <1>3, InitType DEF ReportsInv

LEMMA ReportsHold == Spec => []ReportsInv
  BY ReportsInit, ReportsStep, PTL DEF Spec

\* RefusalHasAccount: a creation is refused only for an e-mail that has a row, or none
\* at all.
THEOREM RefusalsAreDue == Spec => []RefusalHasAccount
<1>1. ReportsInv => RefusalHasAccount BY AllJustified DEF ReportsInv
<1> QED BY ReportsHold, <1>1, PTL

\* LoginHasAccount: a log-in that is reported had the e-mail and the password of a row,
\* and is given the userId of that row.
THEOREM LoginsAreDue == Spec => []LoginHasAccount
<1>1. ReportsInv => LoginHasAccount BY AllJustified DEF ReportsInv
<1> QED BY ReportsHold, <1>1, PTL

-----------------------------------------------------------------------------
\* Who is refused.

\* When one row is all that matches, it is the one that was read.
LEMMA OnlyRow ==
  ASSUME TypeOK, NEW email \in Emails, NEW i \in RowsOf(email), Matching(email) = {i}
  PROVE  Found(email) = web_auth[i] /\ web_auth[i].email = email
BY FoundRow DEF RowsOf

LEMMA RefusedByAnother ==
  ASSUME ReportsInv, Next, NEW s \in Servers, Refused(s), call[s].email # NoEmail,
         NEW i \in RowsOf(call[s].email),
         web_auth[i].hashedPassword = Hash(call[s].password, web_auth[i].salt)
  PROVE  Matching(call[s].email) # {i}
<1> SUFFICES ASSUME Matching(call[s].email) = {i} PROVE FALSE
  OBVIOUS
<1>1. TypeOK /\ ReadOK BY DEF ReportsInv
<1>2. pc[s] \in {"selectAuth", "updateUser"} /\ pc'[s] = "returned" /\ failures' = failures
      /\ result'[s] < 0 /\ call[s].email \notin Quoted
  BY DEF Refused
<1>3. Step(s)
  <2>1. PICK t \in Servers : IsCalled(t) \/ Step(t) \/ Resume(t) \/ Restart(t)
    BY DEF Next, IsCalled
  <2>2. t = s BY <1>1, <1>2, <2>1, OthersKept
  <2>3. ~IsCalled(s) BY <1>2 DEF IsCalled, Call
  <2>4. ~Resume(s) /\ ~Restart(s) BY <1>1, <1>2 DEF Resume, Restart, Forget, TypeOK
  <2> QED BY <2>1, <2>2, <2>3, <2>4
<1>4. ~SelectThrows(s)
  <2>1. failures \in Nat BY <1>1 DEF TypeOK
  <2>2. failures - 1 # failures BY <2>1
  <2> QED BY <1>2, <2>2 DEF SelectThrows, QueryThrows, Throws
<1>5. call[s].email \in Emails BY <1>1, <1>2, CallType
<1>6. CASE pc[s] = "selectAuth"
  <2>1. SelectAuth(s)
    BY <1>3, <1>4, <1>6 DEF Step, FindEmail, FindEmailThrows, InsertAuth, InsertAuthUnconnected,
       InsertAuthThrows, InsertUser, InsertUserThrows, SelectUser, UpdateUser
  <2>2. Found(call[s].email).email = call[s].email BY <1>1, <1>5, OnlyRow
  <2>3. pc' = [pc EXCEPT ![s] = "selectUser"] BY <1>2, <2>1, <2>2, FindsPlain DEF SelectAuth
  <2> QED BY <1>1, <1>2, <2>3 DEF TypeOK
<1>7. CASE pc[s] = "updateUser"
  <2>1. UpdateUser(s)
    BY <1>3, <1>4, <1>7 DEF Step, FindEmail, FindEmailThrows, InsertAuth, InsertAuthUnconnected,
       InsertAuthThrows, InsertUser, InsertUserThrows, SelectAuth, SelectUser
  <2>2. HasBeenRead(s) BY <1>1, <1>7 DEF ReadOK
  <2>3. /\ thisUser[s].salt = web_auth[i].salt
        /\ thisUser[s].hashedPassword = web_auth[i].hashedPassword
        /\ thisUser[s].userId = web_auth[i].userId
    BY <2>2 DEF HasBeenRead, RowsOf, Matching
  <2>4. result'[s] = web_auth[i].userId
    BY <1>1, <2>1, <2>3 DEF UpdateUser, Return, Checked, TypeOK
  <2>5. web_auth[i].userId \in Nat
    <3>1. web_auth[i] \in AuthRows BY <1>1 DEF RowsOf, TypeOK
    <3> QED BY <3>1 DEF AuthRows
  <2>6. ~(web_auth[i].userId < 0) BY <2>5
  <2> QED BY <1>2, <2>4, <2>6
<1> QED BY <1>2, <1>6, <1>7

\* LockedOutByAnother: the e-mail and the password of a row are accepted by every
\* server unless another row has that e-mail too, or differs from it in case.
THEOREM OnlyAnotherLocksOut == Spec => LockedOutByAnother
<1>1. ReportsInv /\ [Next]_accountVars =>
        [\A s \in Servers :
           Refused(s) /\ call[s].email # NoEmail =>
             \A i \in RowsOf(call[s].email) :
               web_auth[i].hashedPassword = Hash(call[s].password, web_auth[i].salt) =>
                 Matching(call[s].email) # {i}]_accountVars
  BY RefusedByAnother
<1> QED BY ReportsHold, <1>1, PTL DEF LockedOutByAnother, Spec

-----------------------------------------------------------------------------
\* The two tables keep step.

Between == Cardinality(At("insertUser"))

StepInv ==
  /\ Len(user) + Between <= Len(web_auth)
  /\ Len(web_auth) <= Len(user) + Between + (MaxFailures - failures) + (MaxRestarts - restarts)

LEMMA AtFinite ==
  ASSUME NEW place
  PROVE  IsFiniteSet(At(place)) /\ Cardinality(At(place)) \in Nat
BY ServerAssumption, FS_Subset, FS_CardinalityType DEF At

\* How many are between the two INSERTs, before and after a server moves.
LEMMA BetweenMoves ==
  ASSUME TypeOK, NEW s \in Servers, IsCalled(s) \/ Step(s) \/ Resume(s) \/ Restart(s)
  PROVE  /\ pc[s] # "insertUser" /\ pc'[s] # "insertUser" => Between' = Between
         /\ pc[s] # "insertUser" /\ pc'[s] = "insertUser" => Between' = Between + 1
         /\ pc[s] = "insertUser" /\ pc'[s] # "insertUser" => Between' = Between - 1
<1>1. \A t \in Servers \ {s} : pc'[t] = pc[t] BY OthersKept
<1>2. IsFiniteSet(At("insertUser")) BY AtFinite
<1>3. ASSUME pc[s] # "insertUser", pc'[s] # "insertUser" PROVE Between' = Between
  <2>1. At("insertUser")' = At("insertUser") BY <1>1, <1>3 DEF At
  <2> QED BY <2>1 DEF Between
<1>4. ASSUME pc[s] # "insertUser", pc'[s] = "insertUser" PROVE Between' = Between + 1
  <2>1. At("insertUser")' = At("insertUser") \cup {s} /\ s \notin At("insertUser")
    BY <1>1, <1>4 DEF At
  <2> QED BY <1>2, <2>1, FS_AddElement DEF Between
<1>5. ASSUME pc[s] = "insertUser", pc'[s] # "insertUser" PROVE Between' = Between - 1
  <2>1. At("insertUser")' = At("insertUser") \ {s} /\ s \in At("insertUser")
    BY <1>1, <1>5 DEF At
  <2> QED BY <1>2, <2>1, FS_RemoveElement DEF Between
<1> QED BY <1>3, <1>4, <1>5

\* The numbers of rows, before and after a server moves.
LEMMA LengthsMove ==
  ASSUME TypeOK, NEW s \in Servers, IsCalled(s) \/ Step(s) \/ Resume(s) \/ Restart(s)
  PROVE  /\ UNCHANGED <<failures, restarts>> \/ (failures' = failures - 1 /\ UNCHANGED restarts)
            \/ (restarts' = restarts - 1 /\ UNCHANGED failures)
         /\ \/ /\ pc[s] # "insertUser" /\ pc'[s] # "insertUser"
               /\ Len(web_auth') = Len(web_auth) /\ Len(user') = Len(user)
            \/ /\ pc[s] # "insertUser" /\ pc'[s] # "insertUser"
               /\ Len(web_auth') = Len(web_auth) + 1 /\ Len(user') = Len(user)
               /\ failures' = failures - 1 /\ UNCHANGED restarts
            \/ /\ pc[s] # "insertUser" /\ pc'[s] = "insertUser"
               /\ Len(web_auth') = Len(web_auth) + 1 /\ Len(user') = Len(user)
               /\ UNCHANGED <<failures, restarts>>
            \/ /\ pc[s] = "insertUser" /\ pc'[s] # "insertUser"
               /\ Len(web_auth') = Len(web_auth) /\ Len(user') = Len(user) + 1
            \/ /\ pc[s] = "insertUser" /\ pc'[s] # "insertUser"
               /\ Len(web_auth') = Len(web_auth) /\ Len(user') = Len(user)
               /\ (failures' = failures - 1 /\ UNCHANGED restarts)
                  \/ (restarts' = restarts - 1 /\ UNCHANGED failures)
<1>a. pc \in [Servers -> Places] BY DEF TypeOK
<1>b. \A row \in AuthRows : Len(Append(web_auth, row)) = Len(web_auth) + 1
  BY AppendProperties DEF TypeOK
<1>c. \A row \in UserRows : Len(Append(user, row)) = Len(user) + 1
  BY AppendProperties DEF TypeOK
<1>1. CASE IsCalled(s) BY <1>a, <1>1 DEF IsCalled, Call, tables
<1>2. CASE Resume(s) BY <1>a, <1>2 DEF Resume, Forget, tables, bounds
<1>3. CASE Restart(s) BY <1>a, <1>3 DEF Restart, Forget, tables
<1>4. CASE FindEmail(s) BY <1>a, <1>4 DEF FindEmail, Return, tables, bounds
<1>5. CASE FindEmailThrows(s) BY <1>a, <1>5 DEF FindEmailThrows, QueryThrows, Throws, tables
<1>6. CASE InsertAuth(s) BY <1>a, <1>b, <1>6, NewAuthType DEF InsertAuth, bounds
<1>7. CASE InsertAuthUnconnected(s)
  BY <1>a, <1>7 DEF InsertAuthUnconnected, Throws, ReportUser, Return, tables
<1>8. CASE InsertAuthThrows(s)
  BY <1>a, <1>b, <1>8, NewAuthType DEF InsertAuthThrows, Throws, ReportUser, Return
<1>9. CASE InsertUser(s) BY <1>a, <1>c, <1>9, NewUserType DEF InsertUser, ReportUser, Return, bounds
<1>10. CASE InsertUserThrows(s)
  BY <1>a, <1>c, <1>10, NewUserType DEF InsertUserThrows, Throws, ReportUser, Return
<1>11. CASE SelectAuth(s) BY <1>a, <1>11 DEF SelectAuth, Return, tables, bounds
<1>12. CASE SelectUser(s) BY <1>a, <1>12 DEF SelectUser, tables, bounds
<1>13. CASE UpdateUser(s) BY <1>a, <1>13, LoggedInType DEF UpdateUser, Return, bounds
<1>14. CASE SelectThrows(s)
  BY <1>a, <1>14, LoggedInType DEF SelectThrows, QueryThrows, Throws, Return
<1> QED BY <1>1, <1>2, <1>3, <1>4, <1>5, <1>6, <1>7, <1>8, <1>9, <1>10, <1>11, <1>12, <1>13,
           <1>14 DEF Step

LEMMA StepInvKept ==
  ASSUME TypeOK, StepInv, NEW s \in Servers, IsCalled(s) \/ Step(s) \/ Resume(s) \/ Restart(s)
  PROVE  StepInv'
<1>1. /\ Len(user) \in Nat /\ Len(web_auth) \in Nat /\ failures \in Nat /\ restarts \in Nat
      /\ MaxFailures \in Nat /\ MaxRestarts \in Nat
  BY BoundAssumption DEF TypeOK
<1>2. Between \in Nat BY AtFinite DEF Between
<1>3. CASE /\ Between' = Between /\ Len(web_auth') = Len(web_auth) /\ Len(user') = Len(user)
           /\ UNCHANGED <<failures, restarts>> \/ (failures' = failures - 1 /\ UNCHANGED restarts)
              \/ (restarts' = restarts - 1 /\ UNCHANGED failures)
  BY <1>1, <1>2, <1>3, SMTT(20) DEF StepInv
<1>4. CASE /\ Between' = Between /\ Len(web_auth') = Len(web_auth) + 1 /\ Len(user') = Len(user)
           /\ failures' = failures - 1 /\ UNCHANGED restarts
  BY <1>1, <1>2, <1>4, SMT DEF StepInv
<1>5. CASE /\ Between' = Between + 1 /\ Len(web_auth') = Len(web_auth) + 1
           /\ Len(user') = Len(user) /\ UNCHANGED <<failures, restarts>>
  BY <1>1, <1>2, <1>5, SMT DEF StepInv
<1>6. CASE /\ Between' = Between - 1 /\ Len(web_auth') = Len(web_auth)
           /\ Len(user') = Len(user) + 1
           /\ UNCHANGED <<failures, restarts>> \/ (failures' = failures - 1 /\ UNCHANGED restarts)
              \/ (restarts' = restarts - 1 /\ UNCHANGED failures)
  BY <1>1, <1>2, <1>6, SMTT(20) DEF StepInv
<1>7. CASE /\ Between' = Between - 1 /\ Len(web_auth') = Len(web_auth) /\ Len(user') = Len(user)
           /\ (failures' = failures - 1 /\ UNCHANGED restarts)
              \/ (restarts' = restarts - 1 /\ UNCHANGED failures)
  BY <1>1, <1>2, <1>7, SMTT(20) DEF StepInv
<1> QED BY <1>3, <1>4, <1>5, <1>6, <1>7, LengthsMove, BetweenMoves

LEMMA StepInvInit == AccountInit => StepInv
<1> SUFFICES ASSUME AccountInit PROVE StepInv
  OBVIOUS
<1>1. At("insertUser") = {} BY DEF AccountInit, At
<1>2. Between = 0 BY <1>1, FS_EmptySet DEF Between
<1>3. Len(user) = 0 /\ Len(web_auth) = 0 /\ failures = MaxFailures /\ restarts = MaxRestarts
  BY DEF AccountInit
<1> QED BY <1>2, <1>3, BoundAssumption, SMT DEF StepInv

\* TablesInStep: a row is missing in `user` only while a server is between the INSERTs, or
\* after an exception or a restart, and never more rows than those.
THEOREM TablesKeepStep == Spec => []TablesInStep
<1>1. TypeOK /\ StepInv /\ [Next]_accountVars => StepInv'
  <2> SUFFICES ASSUME TypeOK, StepInv, [Next]_accountVars PROVE StepInv'
    OBVIOUS
  <2>1. CASE UNCHANGED accountVars
    <3>1. UNCHANGED <<web_auth, user, pc, failures, restarts>>
      BY <2>1 DEF accountVars, tables, locals, bounds
    <3> QED BY <3>1 DEF StepInv, Between, At
  <2>2. CASE Next BY <2>2, StepInvKept DEF Next, IsCalled
  <2> QED BY <2>1, <2>2
<1>2. TypeOK /\ StepInv => TablesInStep
  <2> SUFFICES ASSUME TypeOK, StepInv PROVE TablesInStep
    OBVIOUS
  <2>1. Len(user) \in Nat /\ Len(web_auth) \in Nat BY DEF TypeOK
  <2>2. Between \in Nat BY AtFinite DEF Between
  <2>3. Len(user) <= Len(web_auth) BY <2>1, <2>2, SMT DEF StepInv
  <2> QED BY <2>3 DEF StepInv, Between, TablesInStep
<1> QED BY TypeCorrect, StepInvInit, <1>1, <1>2, PTL DEF Spec

-----------------------------------------------------------------------------
\* How many rows an e-mail has.

\* The servers that have looked for an e-mail, and are about to insert it.
Inserting(email) == {s \in Servers : pc[s] = "insertAuth" /\ call[s].email = email}

\* Every row, and every one that is about to be inserted, has its own server or its own
\* lookup that ended with an exception.
Count(email) ==
  Cardinality(RowsOf(email)) + Cardinality(Inserting(email))
    <= Cardinality(Servers) + unanswered[email]

CountInv == \A email \in Emails \ Quoted : Alone(email) => Count(email)

LEMMA CountTypes ==
  ASSUME TypeOK, NEW email \in Emails
  PROVE  /\ IsFiniteSet(RowsOf(email)) /\ Cardinality(RowsOf(email)) \in Nat
         /\ IsFiniteSet(Inserting(email)) /\ Cardinality(Inserting(email)) \in Nat
         /\ Cardinality(Inserting(email)) <= Cardinality(Servers)
         /\ Cardinality(Servers) \in Nat /\ unanswered[email] \in Nat
<1>1. Inserting(email) \in SUBSET Servers BY DEF Inserting
<1>2. /\ IsFiniteSet(Inserting(email)) /\ Cardinality(Inserting(email)) \in Nat
      /\ Cardinality(Inserting(email)) <= Cardinality(Servers) /\ Cardinality(Servers) \in Nat
  BY <1>1, ServerAssumption, FS_Subset, FS_CardinalityType
<1>3. RowsOf(email) \in SUBSET (1..Len(web_auth)) /\ Len(web_auth) \in Int /\ 1 \in Int
  BY DEF RowsOf, TypeOK
<1>4. IsFiniteSet(1..Len(web_auth)) BY <1>3, FS_Interval
<1>5. IsFiniteSet(RowsOf(email)) /\ Cardinality(RowsOf(email)) \in Nat
  BY <1>3, <1>4, FS_Subset, FS_CardinalityType
<1> QED BY <1>2, <1>5 DEF TypeOK

\* No row more, and no server that is about to insert one.
LEMMA CountNoMore ==
  ASSUME TypeOK, NEW email \in Emails, Count(email),
         RowsOf(email)' = RowsOf(email), Inserting(email)' \subseteq Inserting(email),
         unanswered'[email] >= unanswered[email], unanswered'[email] \in Nat
  PROVE  Count(email)'
<1>1. /\ Cardinality(Inserting(email)') <= Cardinality(Inserting(email))
      /\ Cardinality(Inserting(email)') \in Nat
  BY CountTypes, FS_Subset, FS_CardinalityType
<1>2. Cardinality(RowsOf(email)') = Cardinality(RowsOf(email)) OBVIOUS
<1> QED BY <1>1, <1>2, CountTypes, SMT DEF Count

\* Nothing was found: it is the first row, and all servers may be inserting it.
LEMMA CountNone ==
  ASSUME TypeOK, TypeOK', NEW email \in Emails, RowsOf(email)' = {}
  PROVE  Count(email)'
<1>1. Inserting(email)' \in SUBSET Servers BY DEF Inserting
<1>2. /\ Cardinality(Inserting(email)') <= Cardinality(Servers)
      /\ Cardinality(Inserting(email)') \in Nat /\ Cardinality(Servers) \in Nat
  BY <1>1, ServerAssumption, FS_Subset, FS_CardinalityType
<1>3. Cardinality(RowsOf(email)') = 0 BY FS_EmptySet
<1>4. unanswered'[email] \in Nat BY DEF TypeOK
<1> QED BY <1>2, <1>3, <1>4, SMT DEF Count

\* One more is about to insert it, after an exception.
LEMMA CountUnanswered ==
  ASSUME TypeOK, NEW email \in Emails, Count(email), NEW s \in Servers,
         RowsOf(email)' = RowsOf(email), Inserting(email)' = Inserting(email) \cup {s},
         unanswered'[email] = unanswered[email] + 1
  PROVE  Count(email)'
<1>1. /\ Cardinality(Inserting(email)') <= Cardinality(Inserting(email)) + 1
      /\ Cardinality(Inserting(email)') \in Nat
  <2>1. IsFiniteSet(Inserting(email)) /\ Cardinality(Inserting(email)) \in Nat BY CountTypes
  <2>2. Cardinality(Inserting(email) \cup {s})
          \in {Cardinality(Inserting(email)), Cardinality(Inserting(email)) + 1}
    BY <2>1, FS_AddElement
  <2> QED BY <2>1, <2>2
<1>2. Cardinality(RowsOf(email)') = Cardinality(RowsOf(email)) OBVIOUS
<1> QED BY <1>1, <1>2, CountTypes, SMT DEF Count

\* A server that was about to insert it has.
LEMMA CountInserted ==
  ASSUME TypeOK, NEW email \in Emails, Count(email), NEW s \in Inserting(email), NEW i,
         RowsOf(email)' = RowsOf(email) \cup {i}, i \notin RowsOf(email),
         Inserting(email)' = Inserting(email) \ {s}, unanswered'[email] = unanswered[email]
  PROVE  Count(email)'
<1>1. Cardinality(Inserting(email)') = Cardinality(Inserting(email)) - 1
  BY CountTypes, FS_RemoveElement
<1>2. Cardinality(RowsOf(email)') = Cardinality(RowsOf(email)) + 1
  BY CountTypes, FS_AddElement
<1> QED BY <1>1, <1>2, CountTypes, SMT DEF Count

\* The rows of an e-mail after an INSERT.
LEMMA RowsAfter ==
  ASSUME TypeOK, NEW row \in AuthRows, web_auth' = Append(web_auth, row), NEW email
  PROVE  /\ row.email = email => RowsOf(email)' = RowsOf(email) \cup {Len(web_auth) + 1}
         /\ row.email # email => RowsOf(email)' = RowsOf(email)
         /\ Len(web_auth) + 1 \notin RowsOf(email)
<1>1. /\ DOMAIN web_auth' = DOMAIN web_auth \cup {Len(web_auth) + 1}
      /\ \A i \in DOMAIN web_auth : web_auth'[i] = web_auth[i]
      /\ web_auth'[Len(web_auth) + 1] = row
      /\ Len(web_auth) + 1 \notin DOMAIN web_auth
  <2>1. web_auth \in Seq(AuthRows) BY DEF TypeOK
  <2>2. DOMAIN web_auth = 1..Len(web_auth) /\ Len(web_auth) \in Nat BY <2>1
  <2>3. /\ DOMAIN web_auth' = 1 .. Len(web_auth) + 1
        /\ \A i \in 1..Len(web_auth) : web_auth'[i] = web_auth[i]
        /\ web_auth'[Len(web_auth) + 1] = row
    BY <2>1, AppendProperties
  <2>4. /\ 1 .. Len(web_auth) + 1 = (1..Len(web_auth)) \cup {Len(web_auth) + 1}
        /\ Len(web_auth) + 1 \notin 1..Len(web_auth)
    BY <2>2, SMT
  <2> QED BY <2>2, <2>3, <2>4
<1> QED BY <1>1 DEF RowsOf

\* Who is about to insert an e-mail, before and after a server moves.
LEMMA InsertingMoves ==
  ASSUME TypeOK, NEW s \in Servers, IsCalled(s) \/ Step(s) \/ Resume(s) \/ Restart(s),
         NEW email
  PROVE  /\ pc'[s] # "insertAuth" => Inserting(email)' = Inserting(email) \ {s}
         /\ call'[s].email # email => Inserting(email)' = Inserting(email) \ {s}
         /\ pc'[s] = "insertAuth" /\ call'[s].email = email =>
              Inserting(email)' = Inserting(email) \cup {s}
<1>1. \A t \in Servers \ {s} : pc'[t] = pc[t] /\ call'[t] = call[t] BY OthersKept
<1> QED BY <1>1 DEF Inserting

\* Where a lookup finds nothing, there is no row of an e-mail that stands alone.
LEMMA NothingThere ==
  ASSUME TypeOK, NEW email \in Emails, Alone(email), Found(email).email # email
  PROVE  RowsOf(email) = {}
<1>1. CASE Matching(email) = {} BY <1>1 DEF Matching, RowsOf
<1>2. CASE /\ Max(Matching(email)) \in Matching(email)
           /\ Found(email) = web_auth[Max(Matching(email))]
  <2>1. Max(Matching(email)) \in DOMAIN web_auth BY <1>2 DEF Matching
  <2>2. Found(email) \in AuthRows BY <1>2, <2>1 DEF TypeOK
  <2>3. Found(email).email \in Emails BY <2>2 DEF AuthRows
  <2>4. Folded[Found(email).email] = Folded[email] BY <1>2 DEF Matching
  <2> QED BY <2>3, <2>4 DEF Alone
<1> QED BY <1>1, <1>2, FoundRow

\* A step after which the server is not about to insert, and that stores no row.
LEMMA CountQuiet ==
  ASSUME TypeOK, NEW s \in Servers, IsCalled(s) \/ Step(s) \/ Resume(s) \/ Restart(s),
         NEW email \in Emails, Count(email),
         pc'[s] # "insertAuth" \/ call'[s].email # email, UNCHANGED <<web_auth, unanswered>>
  PROVE  Count(email)'
<1>1. Inserting(email)' \subseteq Inserting(email) BY InsertingMoves
<1>2. RowsOf(email)' = RowsOf(email) BY DEF RowsOf
<1>3. unanswered[email] \in Nat BY DEF TypeOK
<1>4. unanswered'[email] \in Nat /\ unanswered'[email] >= unanswered[email] BY <1>3
<1> QED BY <1>1, <1>2, <1>4, CountNoMore

\* A row is stored.
LEMMA CountRow ==
  ASSUME TypeOK, NEW s \in Servers, Step(s), pc[s] = "insertAuth", pc'[s] # "insertAuth",
         NEW email \in Emails, Count(email), UNCHANGED unanswered, NEW salt \in Salts,
         web_auth' = Append(web_auth, NewAuth(s, salt))
  PROVE  Count(email)'
<1>1. NewAuth(s, salt) \in AuthRows /\ NewAuth(s, salt).email = call[s].email
  BY NewAuthType DEF NewAuth
<1>2. Inserting(email)' = Inserting(email) \ {s} BY InsertingMoves
<1>3. CASE call[s].email = email
  <2>1. s \in Inserting(email) BY <1>3 DEF Inserting
  <2>2. /\ RowsOf(email)' = RowsOf(email) \cup {Len(web_auth) + 1}
        /\ Len(web_auth) + 1 \notin RowsOf(email)
    BY <1>1, <1>3, RowsAfter
  <2> QED BY <1>2, <2>1, <2>2, CountInserted
<1>4. CASE call[s].email # email
  <2>1. RowsOf(email)' = RowsOf(email) BY <1>1, <1>4, RowsAfter
  <2>2. unanswered[email] \in Nat BY DEF TypeOK
  <2>3. unanswered'[email] \in Nat /\ unanswered'[email] >= unanswered[email] BY <2>2
  <2> QED BY <1>2, <2>1, <2>3, CountNoMore
<1> QED BY <1>3, <1>4

LEMMA CountStep ==
  ASSUME TypeOK, TypeOK', NEW s \in Servers,
         IsCalled(s) \/ Step(s) \/ Resume(s) \/ Restart(s),
         NEW email \in Emails \ Quoted, Alone(email), Count(email)
  PROVE  Count(email)'
<1>a. pc \in [Servers -> Places] BY DEF TypeOK
<1>1. CASE IsCalled(s)
  <2>1. pc'[s] # "insertAuth" BY <1>a, <1>1 DEF IsCalled, Call
  <2>2. UNCHANGED <<web_auth, unanswered>> BY <1>1 DEF IsCalled, Call, tables, histories
  <2> QED BY <1>1, <2>1, <2>2, CountQuiet
<1>2. CASE Resume(s) \/ Restart(s)
  <2>1. pc'[s] # "insertAuth" BY <1>a, <1>2 DEF Resume, Restart, Forget
  <2>2. UNCHANGED <<web_auth, unanswered>> BY <1>2 DEF Resume, Restart, tables, histories
  <2> QED BY <1>2, <2>1, <2>2, CountQuiet
<1>3. CASE FindEmail(s)
  <2>0. Step(s) BY <1>3 DEF Step
  <2>1. UNCHANGED <<web_auth, unanswered, call>> BY <1>3 DEF FindEmail, tables
  <2>2. CASE Return(s, -1, NoDate)
    <3>1. pc'[s] # "insertAuth" BY <1>a, <2>2 DEF Return
    <3> QED BY <2>0, <2>1, <3>1, CountQuiet
  <2>3. CASE call[s].email # email BY <2>0, <2>1, <2>3, CountQuiet
  <2>4. CASE ~Return(s, -1, NoDate) /\ call[s].email = email
    <3>1. Found(email).email # email BY <1>3, <2>4, FindsPlain DEF FindEmail
    <3>2. RowsOf(email)' = {} BY <2>1, <3>1, NothingThere DEF RowsOf
    <3> QED BY <3>2, CountNone
  <2> QED BY <2>2, <2>3, <2>4
<1>4. CASE FindEmailThrows(s)
  <2>0. Step(s) BY <1>4 DEF Step
  <2>1. /\ UNCHANGED <<web_auth, call>> /\ pc'[s] = "insertAuth"
        /\ unanswered' = [unanswered EXCEPT ![call[s].email] = @ + 1]
    BY <1>a, <1>4 DEF FindEmailThrows, tables
  <2>2. RowsOf(email)' = RowsOf(email) BY <2>1 DEF RowsOf
  <2>3. CASE call[s].email = email
    <3>1. Inserting(email)' = Inserting(email) \cup {s} BY <2>0, <2>1, <2>3, InsertingMoves
    <3>2. unanswered'[email] = unanswered[email] + 1 BY <2>1, <2>3 DEF TypeOK
    <3> QED BY <2>2, <3>1, <3>2, CountUnanswered
  <2>4. CASE call[s].email # email
    <3>1. Inserting(email)' \subseteq Inserting(email) BY <2>0, <2>1, <2>4, InsertingMoves
    <3>2. unanswered[email] \in Nat /\ unanswered'[email] = unanswered[email]
      BY <2>1, <2>4 DEF TypeOK
    <3>3. unanswered'[email] \in Nat /\ unanswered'[email] >= unanswered[email] BY <3>2
    <3> QED BY <2>2, <3>1, <3>3, CountNoMore
  <2> QED BY <2>3, <2>4
<1>5. CASE InsertAuth(s)
  <2>1. Step(s) /\ pc[s] = "insertAuth" /\ pc'[s] # "insertAuth" /\ UNCHANGED unanswered
    BY <1>a, <1>5 DEF Step, InsertAuth, histories
  <2> QED BY <1>5, <2>1, CountRow DEF InsertAuth
<1>6. CASE InsertAuthThrows(s)
  <2>1. Step(s) /\ pc[s] = "insertAuth" /\ pc'[s] # "insertAuth" /\ UNCHANGED unanswered
    BY <1>a, <1>6 DEF Step, InsertAuthThrows, ReportUser, Return
  <2>2. CASE UNCHANGED web_auth BY <2>1, <2>2, CountQuiet
  <2>3. CASE \E salt \in Salts : web_auth' = Append(web_auth, NewAuth(s, salt))
    BY <2>1, <2>3, CountRow
  <2> QED BY <1>6, <2>2, <2>3 DEF InsertAuthThrows
<1>7. CASE \/ InsertAuthUnconnected(s) \/ InsertUser(s) \/ InsertUserThrows(s)
           \/ SelectAuth(s) \/ SelectUser(s) \/ UpdateUser(s) \/ SelectThrows(s)
  <2>1. pc'[s] # "insertAuth"
    BY <1>a, <1>7 DEF InsertAuthUnconnected, InsertUser, InsertUserThrows, ReportUser, Return,
       SelectAuth, SelectUser, UpdateUser, SelectThrows
  <2>2. UNCHANGED <<web_auth, unanswered>>
    BY <1>7 DEF InsertAuthUnconnected, InsertUser, InsertUserThrows, SelectAuth, SelectUser,
       UpdateUser, SelectThrows, tables, histories
  <2>3. Step(s) BY <1>7 DEF Step
  <2> QED BY <2>1, <2>2, <2>3, CountQuiet
<1> QED BY <1>1, <1>2, <1>3, <1>4, <1>5, <1>6, <1>7 DEF Step

LEMMA CountInit == AccountInit => CountInv
<1> SUFFICES ASSUME AccountInit, NEW email \in Emails \ Quoted PROVE Count(email)
  BY DEF CountInv
<1>1. RowsOf(email) = {} /\ Inserting(email) = {} BY DEF AccountInit, RowsOf, Inserting
<1>2. unanswered[email] = 0 BY FoldedAssumption DEF AccountInit
<1>3. Cardinality(Servers) \in Nat BY ServerAssumption, FS_CardinalityType
<1> QED BY <1>1, <1>2, <1>3, FS_EmptySet, SMT DEF Count

\* OneRowPerServer: an e-mail that stands alone has at most a row for every server, and one
\* more for every lookup of it that ended with an exception.
THEOREM RowsBounded == Spec => []OneRowPerServer
<1>1. TypeOK /\ TypeOK' /\ CountInv /\ [Next]_accountVars => CountInv'
  <2> SUFFICES ASSUME TypeOK, TypeOK', CountInv, [Next]_accountVars,
                      NEW email \in Emails \ Quoted, Alone(email)
               PROVE  Count(email)'
    BY DEF CountInv, Alone
  <2>1. Count(email) BY DEF CountInv
  <2>2. CASE UNCHANGED accountVars
    <3>1. UNCHANGED <<web_auth, pc, call, unanswered>>
      BY <2>2 DEF accountVars, tables, locals, histories
    <3> QED BY <2>1, <3>1 DEF Count, RowsOf, Inserting
  <2>3. CASE Next BY <2>1, <2>3, CountStep DEF Next, IsCalled
  <2> QED BY <2>2, <2>3
<1>2. TypeOK /\ CountInv => OneRowPerServer
  <2> SUFFICES ASSUME TypeOK, CountInv, NEW email \in Emails \ Quoted, Alone(email)
               PROVE  Cardinality(RowsOf(email)) <= Cardinality(Servers) + unanswered[email]
    BY DEF OneRowPerServer
  <2>1. Count(email) BY DEF CountInv
  <2> QED BY <2>1, CountTypes, SMT DEF Count
<1> QED BY TypeCorrect, CountInit, <1>1, <1>2, PTL DEF Spec


-----------------------------------------------------------------------------
\* One server on a database that works implements the account book.

\* What AccountBook is an abstraction of: one server, no exceptions, and no e-mail that
\* changes a query or differs from another only in case.  ("none" stands for no password.)
Undisturbed ==
  /\ \E s : Servers = {s}
  /\ MaxFailures = 0 /\ Quoted = {}
  /\ \A email \in Emails : Alone(email)
  /\ "none" \notin Passwords

\* A row is made for an e-mail that is not empty, its userId is positive, and its hash is
\* that of a password with its salt.
RowOK(row) ==
  /\ row.email # NoEmail /\ row.userId > 0
  /\ row.hashedPassword = Hash(row.hashedPassword[1], row.salt)

\* No two rows have the same e-mail.
OneRowEach ==
  \A i, j \in DOMAIN web_auth : web_auth[i].email = web_auth[j].email => i = j

\* A server about to insert an e-mail has seen that there is none, and one that goes on
\* behind the first INSERT has stored its password.
CreatingOK ==
  \A s \in Servers :
    /\ pc[s] = "insertAuth" => call[s].email # NoEmail /\ RowsOf(call[s].email) = {}
    /\ pc[s] = "insertUser" =>
         \E i \in RowsOf(call[s].email) : web_auth[i].hashedPassword[1] = call[s].password

BookInv ==
  /\ ReportsInv /\ failures = 0
  /\ \A i \in DOMAIN web_auth : RowOK(web_auth[i])
  /\ OneRowEach /\ CreatingOK

\* A row of an e-mail that stands alone is found.
LEMMA RowIsFound ==
  ASSUME TypeOK, OneRowEach, NEW email \in Emails, Alone(email), NEW i \in RowsOf(email)
  PROVE  Found(email) = web_auth[i]
<1>1. i \in DOMAIN web_auth /\ web_auth[i].email = email
  BY DEF RowsOf
<1>2. ASSUME NEW j \in Matching(email) PROVE j = i
  <2>1. j \in DOMAIN web_auth /\ Folded[web_auth[j].email] = Folded[email]
    BY DEF Matching
  <2>2. web_auth[j] \in AuthRows
    BY <2>1 DEF TypeOK
  <2>3. web_auth[j].email \in Emails
    BY <2>2 DEF AuthRows
  <2>4. web_auth[j].email = email
    BY <2>1, <2>3 DEF Alone
  <2> QED BY <1>1, <2>1, <2>4 DEF OneRowEach
<1>3. i \in Matching(email)
  BY <1>1 DEF Matching
<1>4. Matching(email) = {i}
  BY <1>2, <1>3
<1> QED BY <1>4, OnlyRow

\* What the book says of an e-mail.
BookSays ==
  TypeOK /\ OneRowEach =>
    \A email \in Emails : Alone(email) =>
      /\ RowsOf(email) = {} => Book[email] = "none"
      /\ \A i \in RowsOf(email) : Book[email] = web_auth[i].hashedPassword[1]

LEMMA BookOfRows == BookSays
<1> SUFFICES ASSUME TypeOK, OneRowEach, NEW email \in Emails, Alone(email)
             PROVE  /\ RowsOf(email) = {} => Book[email] = "none"
                    /\ \A i \in RowsOf(email) : Book[email] = web_auth[i].hashedPassword[1]
  BY DEF BookSays
<1>1. RowsOf(email) = {} => Book[email] = "none"
  BY DEF Book
<1>2. ASSUME NEW i \in RowsOf(email) PROVE Book[email] = web_auth[i].hashedPassword[1]
  <2>1. Found(email) = web_auth[i]
    BY RowIsFound
  <2> QED BY <2>1 DEF Book
<1> QED BY <1>1, <1>2

LEMMA BookOfRowsNext == BookSays'
BY BookOfRows, PTL

\* The password in a row is one.
LEMMA PasswordOfRow ==
  ASSUME TypeOK, NEW i \in DOMAIN web_auth
  PROVE  web_auth[i].hashedPassword[1] \in Passwords
<1>1. web_auth[i] \in AuthRows
  BY DEF TypeOK
<1>2. web_auth[i].hashedPassword \in Passwords \X Salts
  BY <1>1 DEF AuthRows
<1> QED BY <1>2

-----------------------------------------------------------------------------
\* The invariant.

LEMMA BookInit == Undisturbed /\ AccountInit => BookInv
<1> SUFFICES ASSUME Undisturbed, AccountInit PROVE BookInv
  OBVIOUS
<1>1. ReportsInv
  BY ReportsInit
<1>2. failures = 0
  BY DEF AccountInit, Undisturbed
<1>3. web_auth = <<>> /\ \A s \in Servers : pc[s] = "idle"
  BY DEF AccountInit
<1>4. DOMAIN web_auth = {}
  BY <1>3
<1>5. (\A i \in DOMAIN web_auth : RowOK(web_auth[i])) /\ OneRowEach
  BY <1>4 DEF OneRowEach
<1>6. CreatingOK
  BY <1>3 DEF CreatingOK
<1> QED BY <1>1, <1>2, <1>5, <1>6 DEF BookInv

\* Without exceptions, these are the steps of a call.
LEMMA QuietStep ==
  ASSUME Undisturbed, NEW s \in Servers, Step(s), failures = 0
  PROVE  \/ FindEmail(s) \/ InsertAuth(s) \/ InsertUser(s)
         \/ SelectAuth(s) \/ SelectUser(s) \/ UpdateUser(s)
<1>1. ~Throws /\ ~QueryThrows(s)
  BY DEF Throws, QueryThrows, Undisturbed
<1> QED BY <1>1 DEF Step, FindEmailThrows, InsertAuthUnconnected, InsertAuthThrows,
           InsertUserThrows, SelectThrows

\* The row that a server inserts.
LEMMA NewRowOK ==
  ASSUME TypeOK, NEW s \in Servers, pc[s] = "insertAuth", call[s].email # NoEmail,
         NEW salt \in Salts
  PROVE  /\ RowOK(NewAuth(s, salt)) /\ NewAuth(s, salt).email = call[s].email
         /\ NewAuth(s, salt).hashedPassword[1] = call[s].password
<1>1. gUserId[s] \in Nat
  BY DEF TypeOK
<1>2. gUserId[s] + 1 > 0
  BY <1>1
<1> QED BY <1>2 DEF RowOK, NewAuth, Hash

\* After the first INSERT there is one row more, the only one of its e-mail.
LEMMA InsertedRow ==
  ASSUME BookInv, TypeOK', NEW s \in Servers, InsertAuth(s)
  PROVE  /\ \A i \in DOMAIN web_auth' : RowOK(web_auth'[i])
         /\ OneRowEach'
         /\ \E i \in RowsOf(call[s].email)' :
              web_auth'[i].hashedPassword[1] = call[s].password
         /\ \A email : email # call[s].email => RowsOf(email)' = RowsOf(email)
<1>1. TypeOK /\ pc[s] = "insertAuth" /\ call[s].email # NoEmail /\ RowsOf(call[s].email) = {}
  BY DEF BookInv, ReportsInv, CreatingOK, InsertAuth
<1>2. PICK salt \in Salts : web_auth' = Append(web_auth, NewAuth(s, salt))
  BY DEF InsertAuth
<1> DEFINE row == NewAuth(s, salt)
           n == Len(web_auth) + 1
<1>3. row \in AuthRows
  BY <1>1, NewAuthType
<1>4. /\ RowOK(row) /\ row.email = call[s].email
      /\ row.hashedPassword[1] = call[s].password
  BY <1>1, NewRowOK
<1>5. /\ DOMAIN web_auth' = DOMAIN web_auth \cup {n}
      /\ \A i \in DOMAIN web_auth : web_auth'[i] = web_auth[i]
      /\ web_auth'[n] = row
  <2>1. web_auth \in Seq(AuthRows) /\ DOMAIN web_auth = 1..Len(web_auth) /\ Len(web_auth) \in Nat
    BY <1>1 DEF TypeOK
  <2>2. /\ DOMAIN web_auth' = 1 .. Len(web_auth) + 1
        /\ \A i \in 1..Len(web_auth) : web_auth'[i] = web_auth[i]
        /\ web_auth'[Len(web_auth) + 1] = row
    BY <1>2, <1>3, <2>1, AppendProperties
  <2>3. 1 .. Len(web_auth) + 1 = (1..Len(web_auth)) \cup {Len(web_auth) + 1}
    BY <2>1, SMT
  <2> QED BY <2>1, <2>2, <2>3
<1>6. /\ RowsOf(call[s].email)' = RowsOf(call[s].email) \cup {n}
      /\ \A email : email # call[s].email => RowsOf(email)' = RowsOf(email)
  <2>1. call' = call
    BY DEF InsertAuth
  <2> HIDE DEF row
  <2> QED BY <1>1, <1>2, <1>3, <1>4, <2>1, RowsAfter DEF row
<1> HIDE DEF row, n
<1>7. \A i \in DOMAIN web_auth' : RowOK(web_auth'[i])
  BY <1>4, <1>5 DEF BookInv
<1>8. OneRowEach'
  <2>1. \A i \in DOMAIN web_auth : web_auth[i].email # row.email
    BY <1>1, <1>4 DEF RowsOf
  <2> QED BY <1>5, <2>1 DEF BookInv, OneRowEach
<1>9. n \in RowsOf(call[s].email)' /\ web_auth'[n].hashedPassword[1] = call[s].password
  BY <1>4, <1>5, <1>6
<1> QED BY <1>6, <1>7, <1>8, <1>9

LEMMA BookStep ==
  ASSUME Undisturbed, BookInv, [Next]_accountVars
  PROVE  BookInv'
<1>1. ReportsInv' /\ TypeOK /\ TypeOK'
  BY ReportsStep DEF BookInv, ReportsInv
<1>2. CASE UNCHANGED web_auth /\ failures' = failures /\ CreatingOK'
  BY <1>1, <1>2 DEF BookInv, OneRowEach
<1>3. CASE UNCHANGED accountVars
  <2>1. UNCHANGED <<web_auth, failures, pc, call>>
    BY <1>3 DEF accountVars, tables, locals, bounds
  <2>2. CreatingOK'
    BY <2>1 DEF BookInv, CreatingOK, RowsOf
  <2> QED BY <1>2, <2>1, <2>2
<1>4. ASSUME NEW s \in Servers, IsCalled(s) \/ Step(s) \/ Resume(s) \/ Restart(s)
      PROVE  BookInv'
  <2>1. Servers = {s}
    BY DEF Undisturbed
  <2>2. CASE IsCalled(s)
    <3>1. UNCHANGED <<web_auth, failures>> /\ pc'[s] \in {"findEmail", "selectAuth"}
      BY <1>1, <2>2 DEF IsCalled, Call, tables, TypeOK
    <3>2. CreatingOK'
      BY <2>1, <3>1 DEF CreatingOK
    <3> QED BY <1>2, <3>1, <3>2
  <2>3. CASE Resume(s) \/ Restart(s)
    <3>1. UNCHANGED <<web_auth, failures>> /\ pc'[s] = "idle"
      BY <1>1, <2>3 DEF Resume, Restart, Forget, tables, bounds, TypeOK
    <3>2. CreatingOK'
      BY <2>1, <3>1 DEF CreatingOK
    <3> QED BY <1>2, <3>1, <3>2
  <2>4. CASE FindEmail(s)
    <3>1. /\ UNCHANGED <<web_auth, failures, call>> /\ pc[s] = "findEmail"
          /\ \/ pc'[s] = "returned"
             \/ pc'[s] = "insertAuth" /\ Found(call[s].email).email # call[s].email
      BY <1>1, <2>4, FindsPlain DEF FindEmail, Return, tables, bounds, TypeOK, Undisturbed
    <3>2. call[s].email \in Emails
      BY <1>1, <3>1, CallType
    <3>3. ASSUME pc'[s] = "insertAuth"
          PROVE  call[s].email # NoEmail /\ RowsOf(call[s].email) = {}
      <4>1. Found(call[s].email).email # call[s].email
        BY <3>1, <3>3
      <4>2. RowsOf(call[s].email) = {}
        BY <1>1, <3>2, <4>1, NothingThere DEF Undisturbed
      <4>3. ASSUME call[s].email = NoEmail PROVE FALSE
        <5>1. \/ Found(call[s].email) = NoUser
              \/ /\ Max(Matching(call[s].email)) \in Matching(call[s].email)
                 /\ Found(call[s].email) = web_auth[Max(Matching(call[s].email))]
          BY <1>1, <3>2, FoundRow
        <5>2. CASE Found(call[s].email) = NoUser
          <6>1. NoUser.email = NoEmail
            BY DEF NoUser
          <6> QED BY <4>1, <4>3, <5>2, <6>1
        <5>3. ASSUME NEW i \in Matching(call[s].email) PROVE FALSE
          <6>1. i \in DOMAIN web_auth /\ Folded[web_auth[i].email] = Folded[call[s].email]
            BY <5>3 DEF Matching
          <6>2. web_auth[i] \in AuthRows
            BY <1>1, <6>1 DEF TypeOK
          <6>3. web_auth[i].email \in Emails
            BY <6>2 DEF AuthRows
          <6>4. web_auth[i].email = call[s].email
            BY <3>2, <6>1, <6>3 DEF Undisturbed, Alone
          <6> QED BY <4>2, <6>1, <6>4 DEF RowsOf
        <5> QED BY <5>1, <5>2, <5>3
      <4> QED BY <4>2, <4>3
    <3>4. CreatingOK'
      BY <2>1, <3>1, <3>3 DEF CreatingOK, RowsOf
    <3> QED BY <1>2, <3>1, <3>4
  <2>5. CASE InsertAuth(s)
    <3>1. pc'[s] = "insertUser" /\ UNCHANGED <<call, failures>>
      BY <1>1, <2>5 DEF InsertAuth, bounds, TypeOK
    <3>2. /\ \A i \in DOMAIN web_auth' : RowOK(web_auth'[i])
          /\ OneRowEach'
          /\ \E i \in RowsOf(call[s].email)' :
               web_auth'[i].hashedPassword[1] = call[s].password
      BY <1>1, <2>5, InsertedRow
    <3>3. CreatingOK'
      BY <2>1, <3>1, <3>2 DEF CreatingOK, RowsOf
    <3> QED BY <1>1, <3>1, <3>2, <3>3 DEF BookInv
  <2>6. CASE InsertUser(s) \/ SelectAuth(s) \/ SelectUser(s) \/ UpdateUser(s)
    <3>1. /\ UNCHANGED <<web_auth, failures>>
          /\ pc'[s] \in {"returned", "selectUser", "updateUser"}
      BY <1>1, <2>6 DEF InsertUser, ReportUser, SelectAuth, SelectUser, UpdateUser, Return,
         tables, bounds, TypeOK
    <3>2. CreatingOK'
      BY <2>1, <3>1 DEF CreatingOK
    <3> QED BY <1>2, <3>1, <3>2
  <2> QED BY <1>4, <2>2, <2>3, <2>4, <2>5, <2>6, QuietStep DEF BookInv
<1> QED BY <1>3, <1>4 DEF Next, IsCalled

-----------------------------------------------------------------------------
\* What shows of it.

\* A result as a report of the account book.
Shown(r) ==
  [op |-> r.op, email |-> r.email, password |-> r.password, verdict |-> VerdictOf(r)]

Reported == {Shown(r) : r \in results}

\* An account is made.
LEMMA BookRegisters ==
  ASSUME NEW email \in Emails, NEW password \in Passwords, email # NoEmail,
         Book[email] = "none", Book' = [Book EXCEPT ![email] = password],
         UNCHANGED Reported
  PROVE  Accounts!Next
BY DEF Accounts!Next, Accounts!Register, Accounts!Registered, Reported, Shown

\* A report that the book justifies.
LEMMA BookTells ==
  ASSUME NEW op \in Operations, NEW email \in Emails, NEW password \in Passwords,
         NEW verdict,
         \/ op = "create" /\ Book[email] = password /\ verdict = "ok"
         \/ op = "create" /\ (Book[email] # "none" \/ email = NoEmail) /\ verdict = "exists"
         \/ op = "authenticate" /\ Book[email] = "none" /\ verdict = "unknown"
         \/ op = "authenticate" /\ Book[email] # "none" /\ Book[email] = password
              /\ verdict = "ok"
         \/ op = "authenticate" /\ Book[email] # "none" /\ Book[email] # password
              /\ verdict = "wrong",
         Reported' = Reported \cup
           {[op |-> op, email |-> email, password |-> password, verdict |-> verdict]},
         UNCHANGED Book
  PROVE  Accounts!Next
<1>1. verdict \in Accounts!Verdict(op, email, password)
  BY DEF Accounts!Verdict, Accounts!Registered, Operations
<1>2. Accounts!Tell(op, email, password)
  BY <1>1 DEF Accounts!Tell, Accounts!Report, Reported, Shown
<1> QED BY <1>2 DEF Accounts!Next, Accounts!Operations, Operations

\* A step that shows nothing.
LEMMA BookStutters ==
  ASSUME UNCHANGED <<Book, Reported>>
  PROVE  UNCHANGED Accounts!vars
BY DEF Accounts!vars, Reported, Shown

\* The book depends on the rows, the reports on the results.
LEMMA SameBook ==
  ASSUME UNCHANGED web_auth
  PROVE  UNCHANGED Book
BY DEF Book, RowsOf, Found, Matching

LEMMA SameReports ==
  ASSUME UNCHANGED results
  PROVE  UNCHANGED Reported
BY DEF Reported

\* A call that returns is reported.
LEMMA ReturnReports ==
  ASSUME NEW s \in Servers, NEW value, NEW date, Return(s, value, date)
  PROVE  Reported' = Reported \cup
           {[op |-> call[s].op, email |-> call[s].email, password |-> call[s].password,
             verdict |-> IF value > 0 THEN "ok"
                         ELSE IF call[s].op = "create" THEN "exists"
                         ELSE IF value = -4 THEN "wrong" ELSE "unknown"]}
<1> DEFINE r == [op |-> call[s].op, email |-> call[s].email, password |-> call[s].password,
                 value |-> value, date |-> date]
<1>1. results' = results \cup {r}
  BY DEF Return
<1>2. Reported' = {Shown(x) : x \in results'}
  BY DEF Reported, Shown, VerdictOf
<1>3. Reported' = Reported \cup {Shown(r)}
  <2> HIDE DEF r
  <2> QED BY <1>1, <1>2 DEF Reported
<1>4. Shown(r) =
        [op |-> call[s].op, email |-> call[s].email, password |-> call[s].password,
         verdict |-> IF value > 0 THEN "ok"
                     ELSE IF call[s].op = "create" THEN "exists"
                     ELSE IF value = -4 THEN "wrong" ELSE "unknown"]
  BY DEF Shown, VerdictOf
<1> QED BY <1>3, <1>4

\* The first INSERT registers the e-mail.
LEMMA InsertRegisters ==
  ASSUME Undisturbed, BookInv, BookInv', NEW s \in Servers, InsertAuth(s)
  PROVE  Accounts!Next
<1> SUFFICES ASSUME NEW email, NEW password,
                    email = call[s].email, password = call[s].password
             PROVE  Accounts!Next
  OBVIOUS
<1>1. /\ TypeOK /\ TypeOK' /\ OneRowEach /\ OneRowEach'
      /\ pc[s] = "insertAuth" /\ email # NoEmail /\ RowsOf(email) = {}
      /\ UNCHANGED <<call, results>>
  BY DEF BookInv, ReportsInv, CreatingOK, InsertAuth, histories
<1>2. email \in Emails /\ password \in Passwords
  BY <1>1, CallType
<1>3. PICK i \in RowsOf(email)' : web_auth'[i].hashedPassword[1] = password
  BY <1>1, InsertedRow DEF RowsOf
<1>4. \A other : other # email => RowsOf(other)' = RowsOf(other)
  BY <1>1, InsertedRow
<1>5. \A other \in Emails : Alone(other)
  BY DEF Undisturbed
<1>6. Book[email] = "none"
  BY <1>1, <1>2, <1>5, BookOfRows DEF BookSays
<1>7. Book'[email] = password
  <2>1. Alone(email)'
    BY <1>2, <1>5 DEF Alone
  <2> QED BY <1>1, <1>2, <1>3, <2>1, BookOfRowsNext DEF BookSays
<1>8. ASSUME NEW other \in Emails, other # email PROVE Book'[other] = Book[other]
  <2>1. RowsOf(other)' = RowsOf(other)
    BY <1>4, <1>8
  <2>2. CASE RowsOf(other) = {}
    BY <1>1, <1>5, <2>1, <2>2, BookOfRows, BookOfRowsNext DEF BookSays, Alone
  <2>3. ASSUME NEW j \in RowsOf(other) PROVE Book'[other] = Book[other]
    <3>1. j \in RowsOf(other)'
      BY <2>1
    <3>2. Book[other] = web_auth[j].hashedPassword[1]
      BY <1>1, <1>5, BookOfRows DEF BookSays
    <3>3. Book'[other] = web_auth'[j].hashedPassword[1]
      BY <1>1, <1>5, <3>1, BookOfRowsNext DEF BookSays, Alone
    <3>4. web_auth'[j] = web_auth[j]
      <4>1. j \in DOMAIN web_auth
        BY DEF RowsOf
      <4>2. [Next]_accountVars
        BY DEF Next, Step
      <4> QED BY <1>1, <4>1, <4>2, RowsStay
    <3> QED BY <3>2, <3>3, <3>4
  <2> QED BY <2>2, <2>3
<1>9. Book' = [Book EXCEPT ![email] = password]
  <2>1. Book = [e \in Emails |-> Book[e]] /\ Book' = [e \in Emails |-> Book'[e]]
    BY DEF Book
  <2> QED BY <1>2, <1>7, <1>8, <2>1
<1> QED BY <1>1, <1>2, <1>6, <1>9, BookRegisters, SameReports

\* What a registered e-mail has in the book.
LEMMA Entry ==
  ASSUME Undisturbed, BookInv, NEW email \in Emails
  PROVE  /\ RowsOf(email) = {} => Book[email] = "none"
         /\ \A i \in RowsOf(email) : /\ Book[email] = web_auth[i].hashedPassword[1]
                                     /\ Book[email] # "none"
<1>1. TypeOK /\ OneRowEach /\ Alone(email)
  BY DEF BookInv, ReportsInv, Undisturbed
<1>2. RowsOf(email) = {} => Book[email] = "none"
  BY <1>1, BookOfRows DEF BookSays
<1>3. ASSUME NEW i \in RowsOf(email)
      PROVE  Book[email] = web_auth[i].hashedPassword[1] /\ Book[email] # "none"
  <2>1. Book[email] = web_auth[i].hashedPassword[1]
    BY <1>1, BookOfRows DEF BookSays
  <2>2. i \in DOMAIN web_auth
    BY DEF RowsOf
  <2>3. web_auth[i].hashedPassword[1] \in Passwords
    BY <1>1, <2>2, PasswordOfRow
  <2> QED BY <2>1, <2>3 DEF Undisturbed
<1> QED BY <1>2, <1>3

\* A creation is refused for an e-mail that is in the book, or empty.
LEMMA FindTells ==
  ASSUME Undisturbed, BookInv, NEW s \in Servers, FindEmail(s)
  PROVE  Accounts!Next \/ UNCHANGED Accounts!vars
<1> DEFINE email == call[s].email
           password == call[s].password
<1>1. TypeOK /\ OpsOK /\ pc[s] = "findEmail" /\ UNCHANGED web_auth
  BY DEF BookInv, ReportsInv, FindEmail, tables
<1>2. call[s].op = "create" /\ email \in Emails /\ password \in Passwords
  BY <1>1, CallType DEF OpsOK, Creating
<1>3. CASE Found(email).email # email
  <2>1. UNCHANGED results
    BY <1>3, FindsPlain DEF FindEmail, Undisturbed
  <2> QED BY <1>1, <2>1, SameBook, SameReports, BookStutters
<1>4. CASE Found(email).email = email
  <2>1. Return(s, -1, NoDate)
    BY <1>4, FindsPlain DEF FindEmail, Undisturbed
  <2>2. Reported' = Reported \cup
          {[op |-> "create", email |-> email, password |-> password, verdict |-> "exists"]}
    BY <1>2, <2>1, ReturnReports
  <2>3. Book[email] # "none" \/ email = NoEmail
    <3>1. Found(email) \in Finds(email)
      BY DEF Finds, Undisturbed
    <3>2. email = NoEmail \/ RowsOf(email) # {}
      BY <1>1, <1>2, <1>4, <3>1, SelectedRow
    <3> QED BY <1>2, <3>2, Entry
  <2> HIDE DEF email, password
  <2> QED BY <1>1, <1>2, <2>2, <2>3, SameBook, BookTells DEF Operations
<1> QED BY <1>3, <1>4

\* A creation that succeeds has registered its e-mail.
LEMMA InsertTells ==
  ASSUME Undisturbed, BookInv, NEW s \in Servers, InsertUser(s)
  PROVE  Accounts!Next
<1> DEFINE email == call[s].email
           password == call[s].password
<1>1. /\ TypeOK /\ OpsOK /\ CreatingOK /\ pc[s] = "insertUser" /\ UNCHANGED web_auth
      /\ Return(s, gUserId[s] + 1, NoDate)
  BY DEF BookInv, ReportsInv, InsertUser, ReportUser, tables
<1>2. call[s].op = "create" /\ email \in Emails /\ password \in Passwords
  BY <1>1, CallType DEF OpsOK, Creating
<1>3. gUserId[s] + 1 > 0
  <2>1. gUserId[s] \in Nat
    BY <1>1 DEF TypeOK
  <2> QED BY <2>1
<1>4. Reported' = Reported \cup
        {[op |-> "create", email |-> email, password |-> password, verdict |-> "ok"]}
  BY <1>1, <1>2, <1>3, ReturnReports
<1>5. Book[email] = password
  BY <1>1, <1>2, Entry DEF CreatingOK
<1> HIDE DEF email, password
<1> QED BY <1>1, <1>2, <1>4, <1>5, SameBook, BookTells DEF Operations

\* Who is not found is not in the book.
LEMMA SelectTells ==
  ASSUME Undisturbed, BookInv, NEW s \in Servers, SelectAuth(s)
  PROVE  Accounts!Next \/ UNCHANGED Accounts!vars
<1> DEFINE email == call[s].email
           password == call[s].password
<1>1. TypeOK /\ OpsOK /\ pc[s] = "selectAuth" /\ UNCHANGED web_auth
  BY DEF BookInv, ReportsInv, SelectAuth, tables
<1>2. call[s].op = "authenticate" /\ email \in Emails /\ password \in Passwords
  BY <1>1, CallType DEF OpsOK, Looking
<1>3. CASE Found(email).email = email
  <2>1. UNCHANGED results
    BY <1>3, FindsPlain DEF SelectAuth, Undisturbed
  <2> QED BY <1>1, <2>1, SameBook, SameReports, BookStutters
<1>4. CASE Found(email).email # email
  <2>1. Return(s, -1, NoDate)
    BY <1>4, FindsPlain DEF SelectAuth, Undisturbed
  <2>2. ~(-1 > 0) /\ -1 # -4
    BY SMT
  <2>3. Reported' = Reported \cup
          {[op |-> "authenticate", email |-> email, password |-> password,
            verdict |-> "unknown"]}
    BY <1>2, <2>1, <2>2, ReturnReports
  <2>4. Book[email] = "none"
    BY <1>1, <1>2, <1>4, NothingThere, Entry DEF Undisturbed
  <2> HIDE DEF email, password
  <2> QED BY <1>1, <1>2, <2>3, <2>4, SameBook, BookTells DEF Operations
<1> QED BY <1>3, <1>4

\* The comparison of the hashes is one of the passwords.
LEMMA SameHash ==
  ASSUME NEW row, RowOK(row), NEW password
  PROVE  (Hash(password, row.salt) = row.hashedPassword) <=> (password = row.hashedPassword[1])
BY DEF RowOK, Hash

\* An authentication is answered as the book says.
LEMMA UpdateTells ==
  ASSUME Undisturbed, BookInv, NEW s \in Servers, UpdateUser(s)
  PROVE  Accounts!Next
<1> DEFINE email == call[s].email
           password == call[s].password
           verdict(value) ==
             IF value > 0 THEN "ok" ELSE IF value = -4 THEN "wrong" ELSE "unknown"
<1>1. /\ TypeOK /\ OpsOK /\ ReadOK /\ pc[s] = "updateUser" /\ UNCHANGED web_auth
      /\ Return(s, Checked(s), creation[s])
  BY DEF BookInv, ReportsInv, UpdateUser
<1>2. call[s].op = "authenticate" /\ email \in Emails /\ password \in Passwords
  BY <1>1, CallType DEF OpsOK, Looking
<1>3. Reported' = Reported \cup
        {[op |-> "authenticate", email |-> email, password |-> password,
          verdict |-> verdict(Checked(s))]}
  BY <1>1, <1>2, ReturnReports
<1>4. CASE email = NoEmail /\ thisUser[s].userId = -1
  <2>1. ~(-1 > 0) /\ -1 # -4
    BY SMT
  <2>2. verdict(Checked(s)) = "unknown"
    BY <1>4, <2>1 DEF Checked
  <2>3. RowsOf(email) = {}
    BY <1>4 DEF BookInv, RowOK, RowsOf
  <2>4. Book[email] = "none"
    BY <1>2, <2>3, Entry
  <2> HIDE DEF email, password, verdict
  <2> QED BY <1>1, <1>2, <1>3, <2>2, <2>4, SameBook, BookTells DEF Operations
<1>5. CASE HasBeenRead(s)
  <2>1. PICK i \in RowsOf(email) :
          /\ thisUser[s].salt = web_auth[i].salt
          /\ thisUser[s].hashedPassword = web_auth[i].hashedPassword
          /\ thisUser[s].userId = web_auth[i].userId
    BY <1>5 DEF HasBeenRead
  <2>2. i \in DOMAIN web_auth /\ RowOK(web_auth[i])
    BY DEF RowsOf, BookInv
  <2>3. Book[email] # "none" /\ Book[email] = web_auth[i].hashedPassword[1]
    BY <1>2, Entry
  <2>4. thisUser[s].userId > 0
    BY <2>1, <2>2 DEF RowOK
  <2>5. ~(-4 > 0)
    BY SMT
  <2>6. CASE Book[email] = password
    <3>1. Hash(password, thisUser[s].salt) = thisUser[s].hashedPassword
      BY <2>1, <2>2, <2>3, <2>6, SameHash, ZenonT(40)
    <3>2. verdict(Checked(s)) = "ok"
      BY <2>4, <3>1 DEF Checked
    <3> HIDE DEF email, password, verdict
    <3> QED BY <1>1, <1>2, <1>3, <2>3, <2>6, <3>2, SameBook, BookTells DEF Operations
  <2>7. CASE Book[email] # password
    <3>1. Hash(password, thisUser[s].salt) # thisUser[s].hashedPassword
      BY <2>1, <2>2, <2>3, <2>7, SameHash
    <3>2. verdict(Checked(s)) = "wrong"
      BY <2>4, <2>5, <3>1 DEF Checked
    <3> HIDE DEF email, password, verdict
    <3> QED BY <1>1, <1>2, <1>3, <2>3, <2>7, <3>2, SameBook, BookTells DEF Operations
  <2> QED BY <2>6, <2>7
<1> QED BY <1>1, <1>4, <1>5 DEF ReadOK

\* Every step is one of the account book, or shows nothing.
LEMMA StepIsBook ==
  ASSUME Undisturbed, BookInv, BookInv', [Next]_accountVars
  PROVE  [Accounts!Next]_(Accounts!vars)
<1>1. CASE UNCHANGED <<web_auth, results>>
  BY <1>1, SameBook, SameReports, BookStutters
<1>2. CASE UNCHANGED accountVars
  BY <1>1, <1>2 DEF accountVars, tables, histories
<1>3. ASSUME NEW s \in Servers, IsCalled(s) \/ Step(s) \/ Resume(s) \/ Restart(s)
      PROVE  Accounts!Next \/ UNCHANGED Accounts!vars
  <2>1. CASE IsCalled(s)
    <3>1. UNCHANGED <<web_auth, results>>
      BY <2>1 DEF IsCalled, Call, tables, histories
    <3> QED BY <3>1, SameBook, SameReports, BookStutters
  <2>2. CASE Resume(s) \/ Restart(s)
    <3>1. UNCHANGED <<web_auth, results>>
      BY <2>2 DEF Resume, Restart, Forget, tables, histories
    <3> QED BY <3>1, SameBook, SameReports, BookStutters
  <2>3. CASE SelectUser(s)
    <3>1. UNCHANGED <<web_auth, results>>
      BY <2>3 DEF SelectUser, tables, histories
    <3> QED BY <3>1, SameBook, SameReports, BookStutters
  <2>4. CASE Step(s) /\ ~SelectUser(s)
    <3>1. \/ FindEmail(s) \/ InsertAuth(s) \/ InsertUser(s)
          \/ SelectAuth(s) \/ UpdateUser(s)
      BY <2>4, QuietStep DEF BookInv
    <3> QED BY <3>1, FindTells, InsertRegisters, InsertTells, SelectTells, UpdateTells
  <2> QED BY <1>3, <2>1, <2>2, <2>3, <2>4
<1> QED BY <1>2, <1>3 DEF Next, IsCalled

\* At first nobody is registered and nothing has been reported.
LEMMA InitIsBook == AccountInit => Accounts!Init
<1> SUFFICES ASSUME AccountInit PROVE Accounts!Init
  OBVIOUS
<1>1. web_auth = <<>> /\ results = {}
  BY DEF AccountInit
<1>2. \A email : RowsOf(email) = {}
  BY <1>1 DEF RowsOf
<1>3. Book = [email \in Emails |-> "none"]
  BY <1>2 DEF Book
<1>4. Reported = {}
  BY <1>1 DEF Reported
<1> QED BY <1>3, <1>4 DEF Accounts!Init, Reported, Shown

\* ImplementsBook: one server on a database that works implements the account book,
\* whatever is asked of it and wherever it is started again.
THEOREM OneServerImplementsBook == Undisturbed => (Spec => ImplementsBook)
<1>1. Undisturbed /\ BookInv /\ [Next]_accountVars => BookInv'
  BY BookStep
<1>2. Undisturbed /\ BookInv /\ BookInv' /\ [Next]_accountVars
        => [Accounts!Next]_(Accounts!vars)
  BY StepIsBook
<1>3. ASSUME Undisturbed PROVE Spec => ImplementsBook
  <2>1. AccountInit => BookInv
    BY <1>3, BookInit
  <2>2. BookInv /\ [Next]_accountVars => BookInv'
    BY <1>1, <1>3
  <2>3. BookInv /\ BookInv' /\ [Next]_accountVars => [Accounts!Next]_(Accounts!vars)
    BY <1>2, <1>3
  <2> QED BY <2>1, <2>2, <2>3, InitIsBook, PTL DEF Spec, ImplementsBook, Accounts!Spec
<1> QED BY <1>3

-----------------------------------------------------------------------------
\* What an account book gives its readers, and so what one server on a database that works
\* gives its chat server, in terms of the rows and the results.

BookTyped ==
  /\ Book \in [Emails -> Passwords \union {"none"}]
  /\ \A r \in Reported : r.email \in Emails /\ r.password \in Passwords

\* Whether a report is as true now as when it was given.
Holds(r) ==
  /\ r.verdict = "ok" => Book[r.email] = r.password
  /\ r.verdict = "wrong" => Book[r.email] # "none" /\ Book[r.email] # r.password
  /\ r.verdict = "exists" => Book[r.email] # "none" \/ r.email = NoEmail

ReadersInv == BookTyped /\ \A r \in Reported : Holds(r)

\* The mapping of UserAccounts is the one above.
LEMMA ReadersSee ==
  /\ Accounts!TypeOK <=> BookTyped
  /\ Accounts!ReportsHold <=> \A r \in Reported : Holds(r)
BY DEF Accounts!TypeOK, Accounts!ReportsHold, Accounts!Registered, BookTyped, Holds,
       Reported, Shown

\* The steps of the book, in these terms.
RegisterStep(email, password) ==
  /\ Book[email] = "none" /\ Book' = [Book EXCEPT ![email] = password]
  /\ Reported' = Reported

TellStep(email, password) ==
  /\ Book' = Book
  /\ \E r \in [op : Operations, email : {email}, password : {password},
               verdict : {"ok", "wrong", "exists", "unknown"}] :
       /\ Reported' = Reported \union {r}
       /\ Holds(r)
       /\ r.verdict = "unknown" => Book[email] = "none"

\* They are all it does.
LEMMA BookDoes ==
  ASSUME "none" \notin Passwords, Accounts!Next
  PROVE  \E email \in Emails, password \in Passwords :
           RegisterStep(email, password) \/ TellStep(email, password)
<1>1. PICK email \in Emails, password \in Passwords :
        \/ Accounts!Register(email, password)
        \/ \E op \in Accounts!Operations : Accounts!Tell(op, email, password)
  BY Zenon DEF Accounts!Next
<1>2. CASE Accounts!Register(email, password)
  <2>1. RegisterStep(email, password)
    BY <1>2 DEF Accounts!Register, Accounts!Registered, RegisterStep, Reported, Shown
  <2> QED BY <2>1
<1>3. CASE \E op \in Accounts!Operations : Accounts!Tell(op, email, password)
  <2>1. PICK op \in Operations : Accounts!Tell(op, email, password)
    BY <1>3 DEF Accounts!Operations, Operations
  <2>2. Book' = Book
    BY <2>1 DEF Accounts!Tell
  <2>3. PICK verdict \in Accounts!Verdict(op, email, password) :
          Reported' = Reported \union
            {[op |-> op, email |-> email, password |-> password, verdict |-> verdict]}
    BY <2>1 DEF Accounts!Tell, Accounts!Report, Reported, Shown
  <2>4. /\ verdict \in {"ok", "wrong", "exists", "unknown"}
        /\ verdict = "ok" => Book[email] = password
        /\ verdict = "wrong" => Book[email] # "none" /\ Book[email] # password
        /\ verdict = "exists" => Book[email] # "none" \/ email = NoEmail
        /\ verdict = "unknown" => Book[email] = "none"
    BY <2>3 DEF Accounts!Verdict, Accounts!Registered
  <2> DEFINE r == [op |-> op, email |-> email, password |-> password, verdict |-> verdict]
  <2>5. r \in [op : Operations, email : {email}, password : {password},
               verdict : {"ok", "wrong", "exists", "unknown"}]
    BY <2>4
  <2>6. Holds(r) /\ (r.verdict = "unknown" => Book[email] = "none")
    BY <2>4 DEF Holds
  <2> HIDE DEF r
  <2>7. Reported' = Reported \union {r}
    BY <2>3 DEF r
  <2>8. TellStep(email, password)
    BY <2>2, <2>5, <2>6, <2>7, Zenon DEF TellStep
  <2> QED BY <2>8
<1> QED BY <1>1, <1>2, <1>3

\* A registered e-mail keeps its password, so that what was reported of it stays true.
LEMMA ReadersStep ==
  ASSUME "none" \notin Passwords, ReadersInv, [Accounts!Next]_(Accounts!vars)
  PROVE  ReadersInv' /\ Accounts!AccountsKept
<1>1. Book \in [Emails -> Passwords \union {"none"}]
  BY DEF ReadersInv, BookTyped
<1>2. ASSUME \A email \in Emails : Book[email] # "none" => Book'[email] = Book[email],
             Reported \subseteq Reported',
             \A r \in Reported' \ Reported : r.verdict = "unknown" => Book[r.email] = "none"
      PROVE  Accounts!AccountsKept
  BY <1>2 DEF Accounts!AccountsKept, Accounts!Registered, Reported, Shown
<1>3. CASE UNCHANGED Accounts!vars
  <2>1. Book' = Book /\ Reported' = Reported
    BY <1>3 DEF Accounts!vars, Reported, Shown
  <2>2. ReadersInv'
    BY <2>1 DEF ReadersInv, BookTyped, Holds
  <2> QED BY <1>2, <2>1, <2>2
<1>4. ASSUME NEW email \in Emails, NEW password \in Passwords, RegisterStep(email, password)
      PROVE  ReadersInv' /\ Accounts!AccountsKept
  <2>1. Book[email] = "none" /\ Book' = [Book EXCEPT ![email] = password] /\ Reported' = Reported
    BY <1>4 DEF RegisterStep
  <2>2. \A other \in Emails : Book[other] # "none" => Book'[other] = Book[other]
    BY <1>1, <2>1
  <2>3. BookTyped'
    BY <1>1, <2>1 DEF BookTyped, ReadersInv
  <2>4. ASSUME NEW r \in Reported PROVE Holds(r)'
    <3>1. Holds(r) /\ r.email \in Emails /\ r.password \in Passwords
      BY DEF ReadersInv, BookTyped
    <3>2. Book'[r.email] = Book[r.email] \/ Book[r.email] = "none"
      BY <2>2, <3>1
    <3>3. Book'[r.email] # "none" \/ Book'[r.email] = Book[r.email]
      BY <1>1, <2>1, <3>1
    <3> QED BY <3>1, <3>2, <3>3 DEF Holds
  <2>5. ReadersInv'
    BY <2>1, <2>3, <2>4 DEF ReadersInv
  <2> QED BY <1>2, <2>1, <2>2, <2>5
<1>5. ASSUME NEW email \in Emails, NEW password \in Passwords, TellStep(email, password)
      PROVE  ReadersInv' /\ Accounts!AccountsKept
  <2>1. PICK r \in [op : Operations, email : {email}, password : {password},
                    verdict : {"ok", "wrong", "exists", "unknown"}] :
          /\ Reported' = Reported \union {r}
          /\ Holds(r)
          /\ r.verdict = "unknown" => Book[email] = "none"
    BY <1>5 DEF TellStep
  <2>2. Book' = Book
    BY <1>5 DEF TellStep
  <2>3. r.email = email /\ r.password = password
    OBVIOUS
  <2>4. BookTyped'
    BY <2>1, <2>2, <2>3 DEF BookTyped, ReadersInv
  <2>5. ASSUME NEW q \in Reported' PROVE Holds(q)'
    <3>1. Holds(q)
      BY <2>1 DEF ReadersInv
    <3> QED BY <2>2, <3>1 DEF Holds
  <2>6. ReadersInv'
    BY <2>4, <2>5 DEF ReadersInv
  <2> QED BY <1>2, <2>1, <2>2, <2>3, <2>6
<1> QED BY <1>3, <1>4, <1>5, BookDoes

\* Of two reports that hold, none contradicts the other.
LEMMA HoldsAgrees == ASSUME ReadersInv PROVE Accounts!ReportsAgree
<1>1. \A r, q \in Reported : r.email = q.email /\ r.verdict = "ok" =>
        /\ q.verdict = "ok" => q.password = r.password
        /\ q.verdict = "wrong" => q.password # r.password
  BY DEF ReadersInv, Holds
<1> QED BY <1>1 DEF Accounts!ReportsAgree, Reported, Shown

\* An empty book has told nobody anything.
LEMMA ReadersStart == ASSUME Accounts!Init PROVE ReadersInv
<1>1. Book = [email \in Emails |-> "none"] /\ Reported = {}
  BY DEF Accounts!Init, Reported, Shown
<1> QED BY <1>1 DEF ReadersInv, BookTyped

\* Every account book tells its readers what stays true and contradicts nothing, and keeps
\* what is registered.
THEOREM BookTrusted ==
  "none" \notin Passwords =>
    (Accounts!Spec =>
       /\ [](Accounts!TypeOK /\ Accounts!ReportsHold /\ Accounts!ReportsAgree)
       /\ [][Accounts!AccountsKept]_(Accounts!vars))
<1>1. ASSUME "none" \notin Passwords
      PROVE  Accounts!Spec =>
               /\ [](Accounts!TypeOK /\ Accounts!ReportsHold /\ Accounts!ReportsAgree)
               /\ [][Accounts!AccountsKept]_(Accounts!vars)
  <2>1. Accounts!Init => ReadersInv
    BY ReadersStart
  <2>2. ReadersInv /\ [Accounts!Next]_(Accounts!vars) => ReadersInv' /\ Accounts!AccountsKept
    BY <1>1, ReadersStep
  <2>3. ReadersInv => Accounts!TypeOK /\ Accounts!ReportsHold /\ Accounts!ReportsAgree
    BY HoldsAgrees, ReadersSee DEF ReadersInv
  <2> QED BY <2>1, <2>2, <2>3, PTL DEF Accounts!Spec
<1> QED BY <1>1

\* So does one server on a database that works, however its calls, its statements and its
\* restarts come: an answer that a log-in is good or that its password is wrong
\* (cUserManager.cpp:20-39) stays true for ever, and no two answers contradict each other.
THEOREM OneServerTrusted ==
  Undisturbed =>
    (Spec => /\ [](Accounts!ReportsHold /\ Accounts!ReportsAgree)
             /\ [][Accounts!AccountsKept]_(Accounts!vars))
<1>1. ASSUME Undisturbed
      PROVE  Spec => /\ [](Accounts!ReportsHold /\ Accounts!ReportsAgree)
                     /\ [][Accounts!AccountsKept]_(Accounts!vars)
  <2>1. "none" \notin Passwords
    BY <1>1 DEF Undisturbed
  <2>2. Accounts!Spec => /\ [](Accounts!TypeOK /\ Accounts!ReportsHold /\ Accounts!ReportsAgree)
                         /\ [][Accounts!AccountsKept]_(Accounts!vars)
    BY <2>1, BookTrusted
  <2>3. Spec => Accounts!Spec
    BY <1>1, OneServerImplementsBook DEF ImplementsBook
  <2> QED BY <2>2, <2>3, PTL
<1> QED BY <1>1
=============================================================================
