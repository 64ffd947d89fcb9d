SPECIFICATION FamilySpec
CONSTANTS
  s1 = s1
  s2 = s2
  p = p
  q = q
  Servers <- OneServer
  Emails = {"a", "b", "c"}
  Families = {{"a", "b", "c"}}
  Folded <- MCFolded
  Quoted = {}
  Passwords <- OnePassword
  Salts = {"salt"}
  FirstId = 5
  Calls = 4
  MaxFailures = 0
  MaxRestarts = 0
INVARIANTS
  DateOfAccount
CHECK_DEADLOCK FALSE
