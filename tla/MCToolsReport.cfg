SPECIFICATION ToolsSpec
CONSTANTS
  Procs = {p1}
  Sent <- MCSent
  PolicyCalls <- MCPolicyCalls
  U64 <- MCU64
  StoredValues <- NoStores
  MaxTuned = 1
INVARIANT ReportIsReadOrNA
