SPECIFICATION Spec
CONSTANTS
  Threads = {t1, t2}
  NoThread = NoThread
  Phases <- MCPhases
  Descriptors <- MCDescriptors
  MaxCalls = 3
INVARIANT
  PhaseIsThreadSafe
