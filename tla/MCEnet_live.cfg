\* Reception goes on and a stop returns: one controller, every packet for the guest.
SPECIFICATION FairSpec
CONSTANTS
  QueueMax = 1
  PacketLen = 1
  Crc = 1
  Trail = 1
  Rooms = {1}
  TxBuffers <- MCOneBuffer
  Turbos <- MCFujitsu
  Ports = {"loop", "wire"}
  Addresses = {"me"}
  RxModes = {"NORMAL"}
  Careful = TRUE
  MaxOffered = 2
  MaxBuffers = 1
  MaxResets = 1
PROPERTIES Drained StopReturns
CHECK_DEADLOCK FALSE
