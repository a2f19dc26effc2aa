SPECIFICATION Spec
CONSTANTS
  MaxPos = 2
  MaxSessions = 2
  MaxFaults = 1
INVARIANT
  SmartSyncAgrees
PROPERTIES
  QueueKeepsPosition
  SmartNeverGoesBack
  QueueDrains
