SPECIFICATION FairSpec
CONSTANTS
  Threads = {t1, t2}
  NoThread = NoThread
  Phases <- MCPhases
  Descriptors <- MCDescriptors
  MaxCalls = 3
INVARIANTS
  TypeOK
  OpenDeviceIsKnown
  StraysOnlyWhenRushed
  AgreesUnlessOverlapped
PROPERTY
  CallsReturn
