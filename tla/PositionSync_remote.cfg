SPECIFICATION Spec
CONSTANTS
  MaxPos = 2
  MaxSessions = 1
  MaxFaults = 0
INVARIANT
  FurtherRemoteApplied
