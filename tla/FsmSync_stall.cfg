CONSTANTS
  clkOf <- IfClkOf
  Input = {}
  Output = {"o"}
  Access <- IfAccess
  access <- Ifaccess
  Channel = {"i"}
  channel <- Ifchannel
  MaxItems = 3
SPECIFICATION Spec
INVARIANT ReadsWhatWasSent
CHECK_DEADLOCK FALSE
