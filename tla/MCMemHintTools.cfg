SPECIFICATION ToolsSpec
CONSTANTS
  Procs = {p1}
  Sent <- MCSent
  PolicyCalls <- MCPolicyCalls
  U64 <- MCU64
  StoredValues <- MCStoredValues
  MaxTuned = 1
INVARIANTS
  SysfsTypeOK
  PolicyWithinLimits
  ReadsBackAsWritten
  HintsGoWhereOpened
  PolicyAnswerIsTrue
  RowIsOfThisPoll
