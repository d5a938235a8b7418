\* A fresh directory and one that holds a node, a password, two phrases, two
\* requests of a kind at once.
SPECIFICATION LiveSpec
CONSTANTS
  Dirs = {d1, d2}
  DefaultDir = d1
  Nodes = {d2}
  Full = {d2}
  Passwords = {p1}
  None = None
  Short = Short
  MaxSeeds = 2
  MaxAwaits = 2
INVARIANTS
  TypeOK
  StepInOrder
  LaunchConfirmed
PROPERTIES
  InitOnlyFresh
  LaunchEnds
CHECK_DEADLOCK FALSE
