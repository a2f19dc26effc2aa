SPECIFICATION Spec
CONSTANTS
  MaxCrashes = 3
  MaxImage = 2
INVARIANTS
  NoStaleReport
  LabelSurvivesUpdate
PROPERTIES
  ImplementsSlot
  ReportArrives
