\* A stop while the tick thread is inside SLiRP.
SPECIFICATION Spec
CONSTANTS
  QueueMax = 1
  PacketLen = 1
  Crc = 1
  Trail = 1
  Rooms = {1, 2}
  TxBuffers <- MCTxBuffers
  Turbos <- MCBothChips
  Ports = {"loop", "wire", "pair"}
  Addresses = {"me", "other"}
  RxModes = {"NORMAL", "OWN"}
  Careful = TRUE
  MaxOffered = 2
  MaxBuffers = 1
  MaxResets = 2
INVARIANT QueueAlive

CHECK_DEADLOCK FALSE
