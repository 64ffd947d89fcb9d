SPECIFICATION FamilySpec
CONSTANTS
  s1 = s1
  s2 = s2
  p = p
  q = q
  Servers <- TwoServers
  Emails = {"a", "A", "b", "o'b"}
  Families = {{"a", "A"}, {"b"}, {"o'b"}}
  Folded <- MCFolded
  Quoted = {"o'b"}
  Passwords <- TwoPasswords
  Salts = {"salt"}
  FirstId = 5
  Calls = 2
  MaxFailures = 1
  MaxRestarts = 1
INVARIANTS
  OneRowPerServer
  TablesInStep
  LoginHasAccount
PROPERTIES
  LockedOutByAnother
CHECK_DEADLOCK FALSE
SYMMETRY Alike
