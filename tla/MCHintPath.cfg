SPECIFICATION PathSpec
CONSTANTS
  Requests   <- MCRequests
  Phases     <- MCPhases
  Priorities <- MCPriorities
  U64 <- MCU64
  U32 <- MCU32
  Ticks <- MCTicks
  Calls <- MCCalls
  Raw   <- MCRaw
INVARIANTS
  TypeOK
  LimitedIsSafe
  SafeIsUnchanged
  LimiterIsMonotone
  ErrorsRelax
  PriorityScales
  TableNeedsNoLimiting
  SelftestPasses
  InferredPhaseIsEarned
  WordIsTheRecord
  FrontEndsAgree
  PriorityIsNotLowered
CHECK_DEADLOCK FALSE
