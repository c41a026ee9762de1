CONSTANTS
  Node <- MCNode
  Intf = {"u", "x", "y"}
  InputIntf = {"u", "x"}
  IntfByName <- MCIntfByName
  Listed <- MCListed
  Clk = 10
  FF = 4
  Netlists <- MCNetlists
SPECIFICATION HlsFairSpec
INVARIANTS
  TypeOK
  ChecksNeverFail
  IoLimitKept
  NodesFitInClk
  AsapIsEarliest
  SetupTimeKept
  ScheduleStartsInFirstClk
  CycleIffReported
  ValueOfItsClk
  RegistersLoaded
  WritesDrivenOnce
  CrossedWithHandshake
  AllocationRejected
PROPERTY Terminates
