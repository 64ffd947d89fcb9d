----------------------------- MODULE AccountBook -----------------------------
(***************************************************************************)
(* What cUserManager promises the main loop of an authentication server:   *)
(* an account book that holds one password per e-mail, and reports that    *)
(* agree with the book at the moment they are given.  There are no         *)
(* tables, statements, salts, hashes or counters in it.  UserAccounts      *)
(* implements this specification as long as one server uses the database,  *)
(* the database does not fail, and no two e-mails differ only in case.     *)
(***************************************************************************)
CONSTANTS
  Emails,     \* E-mails,
  NoEmail,    \* and the empty one, which nobody can register.
  Passwords,
  NoPassword  \* Not a password.

VARIABLES
  book,     \* The password under which an e-mail is registered.
  reported  \* The reports given so far.

vars == <<book, reported>>

Operations == {"create", "authenticate"}

Report(op, email, password, verdict) ==
  [op |-> op, email |-> email, password |-> password, verdict |-> verdict]

Init ==
  /\ book = [email \in Emails |-> NoPassword]
  /\ reported = {}

Registered(email) == book[email] # NoPassword

\* The account of an e-mail that has none is created, once and for good.
Register(email, password) ==
  /\ email # NoEmail /\ ~Registered(email)
  /\ book' = [book EXCEPT ![email] = password]
  /\ UNCHANGED reported

\* What may be said of a call, given the book.
Verdict(op, email, password) ==
  IF op = "create"
  THEN IF book[email] = password THEN {"ok", "exists"}
       ELSE IF Registered(email) \/ email = NoEmail THEN {"exists"} ELSE {}
  ELSE IF ~Registered(email) THEN {"unknown"}
       ELSE IF book[email] = password THEN {"ok"} ELSE {"wrong"}

Tell(op, email, password) ==
  /\ \E verdict \in Verdict(op, email, password) :
       reported' = reported \union {Report(op, email, password, verdict)}
  /\ UNCHANGED book

Next ==
  \E email \in Emails, password \in Passwords :
    \/ Register(email, password)
    \/ \E op \in Operations : Tell(op, email, password)

Spec == Init /\ [][Next]_vars

-----------------------------------------------------------------------------
\* What the book gives its readers.

TypeOK ==
  /\ book \in [Emails -> Passwords \union {NoPassword}]
  /\ \A r \in reported : r.email \in Emails /\ r.password \in Passwords

\* Every report but that an e-mail is unknown is as true now as when it was given.
ReportsHold ==
  \A r \in reported :
    /\ r.verdict = "ok" => book[r.email] = r.password
    /\ r.verdict = "wrong" => Registered(r.email) /\ book[r.email] # r.password
    /\ r.verdict = "exists" => Registered(r.email) \/ r.email = NoEmail

\* No two reports contradict each other: whatever the order of the calls, one password at
\* most was accepted for an e-mail, and none that was accepted was ever refused.
ReportsAgree ==
  \A r, s \in reported : r.email = s.email /\ r.verdict = "ok" =>
    /\ s.verdict = "ok" => s.password = r.password
    /\ s.verdict = "wrong" => s.password # r.password

\* An account never changes its password and never goes away, no report is taken back,
\* and who has an account is not told that it is unknown.
AccountsKept ==
  /\ \A email \in Emails : Registered(email) => book'[email] = book[email]
  /\ reported \subseteq reported'
  /\ \A r \in reported' \ reported : r.verdict = "unknown" => ~Registered(r.email)
=============================================================================
