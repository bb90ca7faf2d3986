SPECIFICATION TuningSpec
CONSTANTS
  Writers = {w1}
  Timer = timer
  WriteHints <- MCWriteHints
  ThresholdSettings = {}
  ChannelValues = {0}
  PmuSample <- StubSample
  RealHw = TRUE
  NoWord = NoWord
  U64 <- MCU64
  U32 <- MCU32
  StoredValues <- MCStoredValues
  MaxTuned = 1
PROPERTIES
  TuningTakesEffect
