SPECIFICATION CheckSpec
CONSTANTS
  x4 = x4
  sticky = sticky
  papermono = papermono
  Boards = {x4, sticky, papermono}
  Board = sticky
  Untagged = {x4}
  SameChip = {sticky, papermono}
  MaxSeg = 2
  MaxRc = 2
  MaxDocs = 3
INVARIANT RunsOwnBoard
PROPERTIES
  CheckIsTrue
  NeverGoesBack
