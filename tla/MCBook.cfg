SPECIFICATION FamilySpec
CONSTANTS
  s1 = s1
  s2 = s2
  p = p
  q = q
  Servers <- OneServer
  Emails = {"a", "b", ""}
  Families = {{"a", "b", ""}}
  Folded <- MCFolded
  Quoted = {}
  Passwords <- TwoPasswords
  Salts = {"salt"}
  FirstId = 5
  Calls = 4
  MaxFailures = 0
  MaxRestarts = 1
PROPERTIES
  ImplementsBook
CHECK_DEADLOCK FALSE
