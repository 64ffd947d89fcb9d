SPECIFICATION FairMessagesSpec
CONSTANTS
  Lengths <- MCLengths
  Cuts <- MCCuts
  MaxPackets = 3
  BufferLength = 512
  PacketLengths <- MCPacketLengths
  MostPackets = 3
  Missing <- MCMissing
  DefaultBufferLength = 512
  FieldSizes <- MCFieldSizes
  TextSizes <- MCTextSizes
  ServerBufferLength = 512
  Words <- MCWords
  Lines <- MCLines
  ShortWords <- MCShortWords
  MaxLines = 5
  MaxUnread = 2
INVARIANTS
  PasswordLongEnough
CHECK_DEADLOCK FALSE
