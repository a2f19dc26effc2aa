\* Three addresses, three versions, one wait that runs out.
SPECIFICATION Spec
CONSTANTS
  Activity = {a1, a2, a3}
  NoActivity = NoActivity
  MaxVer = 3
  MaxTimeouts = 1
INVARIANTS DrawnActivityIsCurrent NoLostUpdate WaitedFrameIsShown
PROPERTIES WaitReturns ImplementsScreen
