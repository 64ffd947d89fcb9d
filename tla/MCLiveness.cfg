SPECIFICATION RoomsFairSpec
CONSTANTS
  c1 = c1
  c2 = c2
  a1 = a1
  a2 = a2
  r1 = r1
  Clients <- TwoClients
  AuthServers <- NoConn
  Rooms <- OneRoom
  NameOf <- MCNameOf
  Texts <- PlainText
  Creds <- PlainCred
  Hashes <- GoodHash
  RoomSize = 1
  NameSize = 1
  DateSizes = {19}
  StrayIds = {}
  FDSetSize = 64
  BufferLength = 512
  Fragile <- NoConn
  Failing = TRUE
  Commands <- Chatting
  Quota <- LiveQuota
  MaxInbox = 2
  MaxCuts = 0
PROPERTIES
  PendingIsSent
  InputIsRead
CHECK_DEADLOCK FALSE
