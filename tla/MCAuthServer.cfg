SPECIFICATION FairLoopSpec
CONSTANTS
  s1 = s1
  p = p
  q = q
  Servers <- OneServer
  Emails = {"abc", "long", ""}
  Folded <- MCFolded
  Quoted = {}
  Passwords <- OnePassword
  Salts = {"salt"}
  FirstId = 5
  Calls = 2
  MaxFailures = 1
  MaxRestarts = 1
  Long = {"long"}
  StrayIds <- MCStrayIds
  MaxRequests = 2
  MaxTries = 2
INVARIANTS
  LoopTypeOK
  
  
PROPERTIES
  
  FirstIsAnswered
CHECK_DEADLOCK FALSE
