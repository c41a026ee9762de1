CONSTANTS
  Node <- MCNode
  Intf = {"u", "x", "y"}
  InputIntf = {"u", "x"}
  IntfByName <- MCIntfByName
  Listed <- MCListed
  Clk = 10
  FF = 4
  Netlists <- MCIo
SPECIFICATION HlsSpec
INVARIANT IoLimitOfSchedule
