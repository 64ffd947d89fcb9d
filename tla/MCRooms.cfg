SPECIFICATION RoomsSpec
CONSTANTS
  c1 = c1
  c2 = c2
  a1 = a1
  a2 = a2
  r1 = r1
  Clients <- TwoClients
  AuthServers <- OneAuth
  Rooms <- OneRoom
  NameOf <- MCNameOf
  Texts <- ChatTexts
  Creds <- PlainCred
  Hashes <- GoodHash
  RoomSize = 1
  NameSize = 1
  DateSizes = {19}
  StrayIds = {}
  FDSetSize = 64
  BufferLength = 512
  Fragile <- NoConn
  Failing = FALSE
  Commands <- Chatting
  Quota <- LongQuota
  MaxInbox = 3
  MaxCuts = 0
INVARIANTS
  TypeOK
PROPERTIES
  ImplementsService
CHECK_DEADLOCK FALSE
