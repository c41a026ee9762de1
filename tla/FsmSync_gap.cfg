CONSTANTS
  clkOf <- GapClkOf
  Input = {"a"}
  Output = {"o"}
  Access <- GapAccess
  access <- Gapaccess
  Channel = {}
  channel <- Gapchannel
  MaxItems = 3
SPECIFICATION Spec
INVARIANT PersistentUntilEnd
CHECK_DEADLOCK FALSE
