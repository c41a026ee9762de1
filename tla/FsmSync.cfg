CONSTANTS
  clkOf <- MCClkOf
  Input = {"a"}
  Output = {"o", "log"}
  Access <- MCAccess
  access <- MCaccess
  Channel = {"again", "branch"}
  channel <- MCchannel
  MaxItems = 6
SPECIFICATION FairSpec
INVARIANTS TypeOK ReadsWhatWasSent PersistentUntilEnd
PROPERTIES JumpTaken ProgramSpec RunsUntilUsedUp
CHECK_DEADLOCK FALSE
