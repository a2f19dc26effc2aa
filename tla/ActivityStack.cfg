\* Three objects, callbacks that make up to two navigation calls.
SPECIFICATION Spec
CONSTANTS
  Activity = {a1, a2, a3}
  NoActivity = NoActivity
  MaxCalls = 2
  MaxChain = 2
INVARIANT ResultReachesItsHandler
PROPERTIES EntersWithoutBle LoopTerminates
