SPECIFICATION FairSpec
CONSTANTS
  Word = 2
  Burst = 4
  Junk = 99
  Sector = 4
  Sectors = 2
  MaxCounter = 9
  ResetReports = TRUE
  UseOverlay = FALSE
  Top = 8
  Buffers <- OneBuffer
  Blocks <- CommandBlocks
  Counts = {0}
  GuestCommands = {"NOP", "RESET", "BUSRESET", "SEL", "ENSEL", "TI", "TID", "PAD", "PADD", "ICCS", "MSGACC", "ILL"}
  BusErrors = FALSE
  MaxSelections = 1
  MaxStarts = 1
INVARIANTS NeverWedged
PROPERTIES CommandsEnd
CHECK_DEADLOCK FALSE
