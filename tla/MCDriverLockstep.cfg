SPECIFICATION Spec
CONSTANTS
  w1 = w1
  w2 = w2
  Writers = {w1, w2}
  Timer = timer
  WriteHints <- MCWriteHints
  ThresholdSettings <- NoSetting
  ChannelValues = {0}
  PmuSample <- StubSample
  RealHw = TRUE
  NoWord = NoWord
  U64 <- MCU64
  U32 <- MCU32
INVARIANTS
  StatusInLockstep
