CONSTANTS
  clkOf <- PrequelClkOf
  Input = {"a"}
  Output = {"o"}
  Access <- PrequelAccess
  access <- Prequelaccess
  Channel = {"loop"}
  channel <- Prequelchannel
  MaxItems = 3
SPECIFICATION Spec
PROPERTY JumpTaken
CHECK_DEADLOCK FALSE
