SPECIFICATION Spec
CONSTANTS
  c1 = c1
  c2 = c2
  a1 = a1
  a2 = a2
  r1 = r1
  Clients <- OneClient
  AuthServers <- TwoAuths
  Rooms <- OneRoom
  NameOf <- MCNameOf
  Texts <- NoText
  Creds <- PlainCred
  Hashes <- BothHashes
  RoomSize = 1
  NameSize = 1
  DateSizes = {0}
  StrayIds = {2}
  FDSetSize = 64
  BufferLength = 512
  Fragile <- NoConn
  Failing = FALSE
  Commands <- Accounts
  Quota <- LoginQuota
  MaxInbox = 2
  MaxCuts = 0
INVARIANTS
  AnswerToOwner
CHECK_DEADLOCK FALSE
