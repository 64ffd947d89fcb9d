--------------------------- MODULE MCUserAccounts ---------------------------
(* TLC instances of UserAccounts: e-mails that differ only in case, one     *)
(* that differs from both, one with an apostrophe, and the empty one.       *)
EXTENDS UserAccounts, TLC

CONSTANTS
  s1, s2, p, q,
  Families  \* The e-mails of one behaviour.

Lower(email) == IF email = "A" THEN "a" ELSE email
MCFolded == [email \in Emails \union {NoEmail} |-> Lower(email)]
OneServer == {s1}
TwoServers == {s1, s2}
OnePassword == {p}
TwoPasswords == {p, q}

\* The calls of a behaviour are about the e-mails of one family.
VARIABLE family

FamilyInit == AccountInit /\ family \in Families

FamilyNext ==
  /\ Next
  /\ \A s \in Servers : call'[s].email \in family \union {NoEmail}
  /\ UNCHANGED family

FamilySpec == FamilyInit /\ [][FamilyNext]_<<accountVars, family>>

Alike == Permutations(TwoServers) \union Permutations(TwoPasswords)
=============================================================================
