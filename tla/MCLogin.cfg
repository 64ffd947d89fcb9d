SPECIFICATION Spec
CONSTANTS
  c1 = c1
  c2 = c2
  a1 = a1
  a2 = a2
  r1 = r1
  Clients <- TwoClients
  AuthServers <- OneAuth
  Rooms <- OneRoom
  NameOf <- MCNameOf
  Texts <- NoText
  Creds <- BothCreds
  Hashes <- GoodHash
  RoomSize = 1
  NameSize = 1
  DateSizes = {19}
  StrayIds = {2}
  FDSetSize = 3
  BufferLength = 512
  Fragile <- SomeFragile
  Failing = FALSE
  Commands <- Logins
  Quota <- LoginQuota
  MaxInbox = 2
  MaxCuts = 1
INVARIANTS
  UniqueRequest
  ReadyCounted
  OnlyNewestUnwatched
  AnswerToOwner
  
PROPERTIES
  SettledKept
CHECK_DEADLOCK FALSE
