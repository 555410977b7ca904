SPECIFICATION Spec
CONSTANTS
  Word = 2
  Burst = 4
  Junk = 99
  Sector = 4
  Sectors = 2
  MaxCounter = 9
  ResetReports = TRUE
  UseOverlay = FALSE
  Top = 8
  Buffers <- ChannelBuffers
  Blocks <- ChannelBlocks
  Counts = {3, 8}
  GuestCommands = {"SEL", "TID"}
  BusErrors = TRUE
  MaxSelections = 1
  MaxStarts = 2
INVARIANTS TypeOK Conserved WithinBuffer  LoopsAgree
PROPERTIES ChannelIsPipe
CHECK_DEADLOCK FALSE
