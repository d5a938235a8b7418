\* Two directories, two starts, alone or overlapping, every order of their steps, failures and
\* lost answers.
SPECIFICATION Spec
CONSTANTS
  Dirs = {d1, d2}
  DefaultDir = d1
  None = None
  NoRow = NoRow
  Flows = {f1, f2}
SYMMETRY Symmetry
INVARIANTS
  TypeOK
  OneRowEach
  RunsWhatIsShown
PROPERTY KeepsKeys
