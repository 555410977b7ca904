\* Two packets from the network, both controllers, two resets or configuration changes.
SPECIFICATION Spec
CONSTANTS
  QueueMax = 1
  PacketLen = 1
  Crc = 1
  Trail = 1
  Rooms = {1}
  TxBuffers <- MCTxBuffers
  Turbos <- MCBothChips
  Ports = {"loop", "wire", "pair"}
  Addresses = {"me", "other"}
  RxModes = {"NORMAL", "OWN"}
  Careful = TRUE
  MaxOffered = 2
  MaxBuffers = 1
  MaxResets = 2
INVARIANTS TypeOK PollSafe WaitsForNetwork
PROPERTIES  StopDescends
CHECK_DEADLOCK FALSE
