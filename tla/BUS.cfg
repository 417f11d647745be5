CONSTANTS
  c1 = c1  c2 = c2  pins = pins  other = other  board = board
  Null = Null  Failed = Failed  Blank <- Zeros  Core = {c1, c2}  Driver = c1
  Addr = {pins, other}  FPGA_SPI_RW = pins  Cell = {board}
  Calls <- OtherOperations  Jobs <- TwoChips  Fresh <- Ones
  MaxTries = 2  MaxTimeouts = 2
  Width = 2  ReadOp <- Read  WriteOp <- Write  PageReg <- Page  DataPort <- Port
  Filler <- Fill
SPECIFICATION FairSpec
INVARIANT CleanJobsSucceed
PROPERTIES OnlyAddressedChange BusReleased RegistersAtomic
CONSTRAINT NotMisled
