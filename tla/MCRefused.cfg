SPECIFICATION LoopSpec
CONSTANTS
  s1 = s1
  p = p
  q = q
  Servers <- OneServer
  Emails = {"abc", ""}
  Folded <- MCFolded
  Quoted = {}
  Passwords <- AllPasswords
  Salts = {"salt"}
  FirstId = 5
  Calls = 2
  MaxFailures = 0
  MaxRestarts = 0
  Long = {}
  StrayIds <- MCStrayIds
  MaxRequests = 2
  MaxTries = 1
INVARIANTS
  WrongPasswordRefused
CHECK_DEADLOCK FALSE
