\* Two fitting images, one foreign, one swap of the card's file, updates as
\* long as a new sequence number is at most 6.
SPECIFICATION Spec
CONSTANTS
  Fitting = {f1, f2}
  Foreign = {x}
  Torn = Torn
  MaxSeq = 6
  MaxSwaps = 1
SYMMETRY Symmetry
INVARIANTS AlwaysBoots OldFirmwareUntilCommit SwitchTakesEffect RunsOnlyChecked
