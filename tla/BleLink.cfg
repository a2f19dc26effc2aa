SPECIFICATION FairSpec
INVARIANTS
  RadioExclusion
  StateTellsRadio
  OutcomeIsCurrent
PROPERTIES
  RequestsFinish
  BleComesBack
